---- MODULE Spec2Model ----
(***************************************************************************)
(* A model of process-sketcher: the keyframe animation controller, the     *)
(* save/apply/restore override discipline of Component, the Tank fluid     *)
(* accumulation, the JSON scene loader/serializer, the render loop of the   *)
(* application, and what one render call of a Pipe or a Valve draws.       *)
(*                                                                         *)
(* Numbers.  Python floats are modelled on integer grids:                  *)
(*   - time is counted in ticks of 0.001 s (the controller's minimal       *)
(*     duration is one tick);                                              *)
(*   - a fluid percent, a fill percent and a rate (percent per second) are  *)
(*     counted in hundredths of a percent point;                           *)
(*   - zoom is counted in thousandths, pan in tenths of a pixel, a grid    *)
(*     size and a drawn coordinate in thousandths of a pixel.              *)
(* Addition, subtraction, multiplication by a grid value, max, min and     *)
(* the modulo are exact on the grid.  A float division rounds to the       *)
(* nearest representable value; on the grid it rounds to the nearest grid  *)
(* point (RoundDiv).                                                       *)
(*                                                                         *)
(* Python values carry their type: [tag |-> "num", v |-> 20],              *)
(* [tag |-> "list", v |-> <<...>>], [tag |-> "tuple", v |-> <<...>>],       *)
(* [tag |-> "dict", v |-> f] with f a function from key strings to values, *)
(* and [tag |-> "none"] for None.                                          *)
(***************************************************************************)
EXTENDS Integers, Sequences, FiniteSets, TLC

VARIABLES
    \* ---- AnimationController under test (SpecAnim)
    ctrl,            \* the controller: [keyframes, durations, total_duration]
    time,            \* the time of the last query
    active,          \* the result of the last get_active_keyframe_index
    \* ---- one component under apply_animation / restore_properties (SpecOverride)
    comp,            \* the live component: [cls, attrs]
    originals,       \* the mapping apply_animation returned
    saved,           \* the component as it was before apply_animation
    phase,           \* "idle" | "applied" | "restored"
    \* ---- one Tank under update calls (SpecTank)
    tank,            \* the Tank: [cls, attrs]
    tank_time,       \* the time of the last update call
    first_update,    \* the time of the first update call, -1 before it
    \* ---- the loader (SpecLoader)
    doc,             \* the text handed to load_from_string
    loaded,          \* the result of load_from_string(doc)
    previous,        \* the scene that doc was serialized from, or None
    \* ---- the application (SpecApp)
    json_text,       \* ProcessSketcherApp.json_text
    components,      \* ProcessSketcherApp.components
    error_message,   \* ProcessSketcherApp.error_message
    viz_zoom,        \* ProcessSketcherApp.viz_zoom, in thousandths
    viz_pan_x,       \* ProcessSketcherApp.viz_pan_x, in tenths of a pixel
    viz_pan_y,       \* ProcessSketcherApp.viz_pan_y, in tenths of a pixel
    zoom_events,     \* number of wheel events handled
    app_time,        \* ProcessSketcherApp.time, in ticks
    frames,          \* number of frames rendered
    baseline,        \* components_to_json(components) right after the last load
    render_error,    \* None, or the exception that left the render loop and the
                     \* index of the component whose render raised it (0: the grid)
    cursor,          \* the position of the last wheel event, in pane pixels
    steps,           \* the calls of the last frame's component loop, in order:
                     \* [op, component, originals]
    \* ---- one component under one render call (SpecDraw)
    shape,           \* the component: [cls, attrs]
    render_args,     \* the arguments of render: [grid_size, offset, time]
    drawing          \* None, or what the call drew: [error, body, x_mark]

vars == <<ctrl, time, active, comp, originals, saved, phase, tank, tank_time, first_update,
          doc, loaded,
          previous, viz_pan_x, viz_pan_y, zoom_events,
          json_text, components, error_message, viz_zoom, app_time, frames,
          baseline, render_error, steps, cursor, shape, render_args, drawing>>

animVars == <<ctrl, time, active>>
overrideVars == <<comp, originals, saved, phase>>
tankVars == <<tank, tank_time, first_update>>
loaderVars == <<doc, loaded, previous>>
appVars == <<json_text, components, error_message, viz_zoom, viz_pan_x, viz_pan_y,
             zoom_events, app_time, frames, baseline, render_error, steps, cursor>>
drawVars == <<shape, render_args, drawing>>

-----------------------------------------------------------------------------
(* Python helpers *)

\* Python and JSON values carry their type
PyNone == [tag |-> "none"]
Num(n) == [tag |-> "num", v |-> n]
PyStr(s) == [tag |-> "str", v |-> s]
PyBool(b) == [tag |-> "bool", v |-> b]
List(s) == [tag |-> "list", v |-> s]
Tuple(s) == [tag |-> "tuple", v |-> s]
Dict(f) == [tag |-> "dict", v |-> f]

\* isinstance(x, list), list(x), tuple(x)
IsList(x) == x.tag = "list"
IsSequence(x) == x.tag \in {"list", "tuple"}
ToTuple(x) == Tuple(x.v)
ToList(x) == List(x.v)

\* bool(x) for the values of the model
Truthy(x) ==
    CASE x.tag = "none" -> FALSE
      [] x.tag = "bool" -> x.v
      [] x.tag = "num" -> x.v # 0
      [] x.tag \in {"list", "tuple"} -> Len(x.v) > 0
      [] x.tag = "str" -> x.v # ""
      [] OTHER -> TRUE

\* dict.get(key, default) on a dict given as a function
Get(d, k, default) == IF k \in DOMAIN d THEN d[k] ELSE default

\* {k: v for k, v in d.items() if k != key}
Without(d, key) == [k \in DOMAIN d \ {key} |-> d[k]]

\* d with d[k] = v (a new key or an existing one)
Put(d, k, v) == [x \in DOMAIN d \cup {k} |-> IF x = k THEN v ELSE d[x]]

\* an exception, and a returned value
Raise(type, msg) == [ok |-> FALSE, exc |-> type, msg |-> msg]
Return(value) == [ok |-> TRUE, value |-> value]

RECURSIVE SumSeq(_)
SumSeq(s) == IF Len(s) = 0 THEN 0 ELSE s[1] + SumSeq(Tail(s))

Max(a, b) == IF a >= b THEN a ELSE b
Min(a, b) == IF a <= b THEN a ELSE b

\* a / b for b > 0, rounded to the nearest grid point (ties upward)
RoundDiv(a, b) == (2 * a + b) \div (2 * b)

\* int(a / b) for b > 0: truncation toward zero
TruncDiv(a, b) == IF a >= 0 THEN a \div b ELSE -((-a) \div b)

-----------------------------------------------------------------------------
(* animation.py: AnimationController *)

\* the minimal duration 0.001 s, in ticks
MinDuration == 1

\* a constructor that adds a duration to the total before it is raised to the
\* minimum
AnimationController_raw_total(keyframes) ==
    LET raw(kf) == Get(kf.v, "duration", Num(0)).v
        dur(kf) == IF raw(kf) <= 0 THEN MinDuration ELSE raw(kf)
    IN  [keyframes |-> [i \in 1..Len(keyframes) |-> Dict(Without(keyframes[i].v, "duration"))],
         durations |-> [i \in 1..Len(keyframes) |-> dur(keyframes[i])],
         total_duration |-> SumSeq([i \in 1..Len(keyframes) |-> raw(keyframes[i])])]

\* __init__: one stored duration and one property dict per keyframe;
\* keyframes is a sequence of dicts
AnimationController(keyframes) ==
    LET dur(kf) == LET duration == Get(kf.v, "duration", Num(0)).v
                   IN  IF duration <= 0 THEN MinDuration ELSE duration
        durs == [i \in 1..Len(keyframes) |-> dur(keyframes[i])]
    IN  [keyframes |-> [i \in 1..Len(keyframes) |-> Dict(Without(keyframes[i].v, "duration"))],
         durations |-> durs,
         total_duration |-> SumSeq(durs)]

\* a loop whose keyframe keeps the instant it ends at
RECURSIVE ScanKeyframes_inclusive(_, _, _, _)
ScanKeyframes_inclusive(durs, i, elapsed, cycle_time) ==
    IF i > Len(durs) THEN Len(durs) - 1
    ELSE IF cycle_time <= elapsed + durs[i] THEN i - 1
    ELSE ScanKeyframes_inclusive(durs, i + 1, elapsed + durs[i], cycle_time)

\* the loop of get_active_keyframe_index; i is 1-based, the result 0-based
RECURSIVE ScanKeyframes(_, _, _, _)
ScanKeyframes(durs, i, elapsed, cycle_time) ==
    IF i > Len(durs) THEN Len(durs) - 1
    ELSE IF cycle_time < elapsed + durs[i] THEN i - 1
    ELSE ScanKeyframes(durs, i + 1, elapsed + durs[i], cycle_time)

\* a remainder that takes the sign of the dividend, as C's fmod does
CycleTime_truncated(c, t) ==
    IF t >= 0 THEN t % c.total_duration ELSE 0 - ((0 - t) % c.total_duration)

\* time % total_duration (Python: the result has the sign of the divisor)
CycleTime(c, t) == t % c.total_duration

\* a lookup that does not reduce the time to the cycle
get_active_keyframe_index_unwrapped(c, t) ==
    IF Len(c.keyframes) = 0 \/ c.total_duration <= 0 THEN -1
    ELSE ScanKeyframes(c.durations, 1, 0, t)

get_active_keyframe_index(c, t) ==
    IF Len(c.keyframes) = 0 \/ c.total_duration <= 0 THEN -1
    ELSE ScanKeyframes(c.durations, 1, 0, CycleTime(c, t))

\* the active keyframe's property dict, or None
get_active_keyframe(c, t) ==
    LET index == get_active_keyframe_index(c, t)
    IN  IF index < 0 THEN PyNone ELSE c.keyframes[index + 1]

\* the active keyframe's properties, every list converted to a tuple
get_property_overrides(c, t) ==
    LET keyframe == get_active_keyframe(c, t)
    IN  IF keyframe = PyNone THEN << >>
        ELSE [k \in DOMAIN keyframe.v |->
                 IF IsList(keyframe.v[k]) THEN ToTuple(keyframe.v[k]) ELSE keyframe.v[k]]

has_keyframes(c) == Len(c.keyframes) > 0

-----------------------------------------------------------------------------
(* components/base.py: Component *)

\* _default_show_label
DefaultShowLabel == TRUE

\* Component.__init__: the attributes every component has
Component_init(position, component_id) ==
    [a \in {"position", "id", "_animation_controller", "_animation_data",
            "show_label", "label_text", "label_position"} |->
        CASE a = "position" -> position
          [] a = "id" -> component_id
          [] a = "_animation_controller" -> PyNone
          [] a = "_animation_data" -> PyNone
          [] a = "show_label" -> PyBool(DefaultShowLabel)
          [] a = "label_text" -> PyNone
          [] a = "label_position" -> PyStr("above")]

\* set_animation(data): an empty list leaves the component without a controller
set_animation(c, data) ==
    IF Truthy(data)
    THEN [c EXCEPT !.attrs = Put(Put(@, "_animation_data", data),
                                 "_animation_controller",
                                 [tag |-> "AnimationController",
                                  v |-> AnimationController(data.v)])]
    ELSE c

\* hasattr(self, prop)
hasattr(c, prop) == prop \in DOMAIN c.attrs

\* a loop that writes every override, whether the attribute exists or not
RECURSIVE ApplyOverrides_creating(_, _, _, _)
ApplyOverrides_creating(c, overrides, names, origs) ==
    IF names = {} THEN [component |-> c, originals |-> origs]
    ELSE LET prop == CHOOSE p \in names : TRUE
         IN  ApplyOverrides_creating([c EXCEPT !.attrs = Put(@, prop, overrides[prop])],
                                     overrides, names \ {prop},
                                     IF hasattr(c, prop) THEN Put(origs, prop, c.attrs[prop])
                                     ELSE origs)

\* the loop of apply_animation over the override names in names
RECURSIVE ApplyOverrides(_, _, _, _)
ApplyOverrides(c, overrides, names, origs) ==
    IF names = {} THEN [component |-> c, originals |-> origs]
    ELSE LET prop == CHOOSE p \in names : TRUE
         IN  IF hasattr(c, prop)
             THEN ApplyOverrides([c EXCEPT !.attrs[prop] = overrides[prop]],
                                 overrides, names \ {prop},
                                 Put(origs, prop, c.attrs[prop]))
             ELSE ApplyOverrides(c, overrides, names \ {prop}, origs)

\* an apply that writes to the component whether it is animated or not
apply_animation_stamping(c, t) ==
    [component |-> [c EXCEPT !.attrs["id"] = PyStr("animated")], originals |-> << >>]

\* apply_animation(time): the component with the overrides written, and the
\* originals it returns
apply_animation(c, t) ==
    IF c.attrs["_animation_controller"] = PyNone
    THEN [component |-> c, originals |-> << >>]
    ELSE LET overrides == get_property_overrides(c.attrs["_animation_controller"].v, t)
         IN  ApplyOverrides(c, overrides, DOMAIN overrides, << >>)

\* a restore that writes nothing back
restore_properties_forgotten(c, origs) == c

\* restore_properties(originals): setattr for every saved property
restore_properties(c, origs) ==
    [c EXCEPT !.attrs = [a \in DOMAIN @ \cup DOMAIN origs |->
                            IF a \in DOMAIN origs THEN origs[a] ELSE @[a]]]

\* _add_animation_to_dict
add_animation_to_dict(c, data) ==
    IF Truthy(c.attrs["_animation_data"])
    THEN Put(data, "animation", c.attrs["_animation_data"])
    ELSE data

\* _add_label_to_dict
add_label_to_dict(c, data) ==
    LET show == Truthy(c.attrs["show_label"])
        d1 == IF ~show /\ DefaultShowLabel THEN Put(data, "show_label", PyBool(FALSE))
              ELSE IF show /\ ~DefaultShowLabel THEN Put(data, "show_label", PyBool(TRUE))
              ELSE data
        d2 == IF c.attrs["label_text"] # PyNone
              THEN Put(d1, "label_text", c.attrs["label_text"]) ELSE d1
    IN  IF c.attrs["label_position"] # PyStr("above")
        THEN Put(d2, "label_position", c.attrs["label_position"]) ELSE d2

\* _load_label_from_dict
load_label_from_dict(c, data) ==
    [c EXCEPT !.attrs = [a \in DOMAIN @ |->
        IF a \in {"show_label", "label_text", "label_position"} /\ a \in DOMAIN data
        THEN data[a] ELSE @[a]]]

-----------------------------------------------------------------------------
(* components/pipe.py, elbow.py, tee.py: construction and serialization *)

\* tuple(x): the inputs of the model hold lists, numbers, booleans and null
\* in these places (a str or a dict would be iterated over, not refused)
CanTuple(x) == IsSequence(x)

NotIterable == Raise("TypeError", <<"object is not iterable">>)

Pipe_init(position, end_position, fluid_type, color, flow_direction, component_id, diameter, trim_start, trim_end) ==
    [cls |-> "Pipe",
     attrs |-> Component_init(position, component_id) @@
               [a \in {"end_position", "fluid_type", "color", "flow_direction",
                       "diameter", "trim_start", "trim_end"} |->
                   CASE a = "end_position" -> end_position
                     [] a = "fluid_type" -> fluid_type
                     [] a = "color" -> color
                     [] a = "flow_direction" -> flow_direction
                     [] a = "diameter" -> diameter
                     [] a = "trim_start" -> trim_start
                     [] a = "trim_end" -> trim_end]]

\* the default colour [100, 150, 255] of Pipe, Elbow and Tee
DefaultColor == List(<<Num(100), Num(150), Num(255)>>)

\* set_animation(data['animation']) when the key is present
LoadAnimation(c, data) ==
    IF "animation" \in DOMAIN data THEN set_animation(c, data["animation"]) ELSE c

Pipe_from_dict(data) ==
    IF "position" \notin DOMAIN data THEN Raise("KeyError", <<"position">>)
    ELSE IF ~CanTuple(data["position"]) THEN NotIterable
    ELSE IF "end_position" \notin DOMAIN data THEN Raise("KeyError", <<"end_position">>)
    ELSE IF ~CanTuple(data["end_position"]) THEN NotIterable
    ELSE IF ~CanTuple(Get(data, "color", DefaultColor)) THEN NotIterable
    ELSE Return(LoadAnimation(
            Pipe_init(ToTuple(data["position"]),
                      ToTuple(data["end_position"]),
                      Get(data, "fluid_type", PyStr("water")),
                      ToTuple(Get(data, "color", DefaultColor)),
                      Get(data, "flow_direction", PyStr("forward")),
                      Get(data, "id", PyNone),
                      Get(data, "diameter", Num(20)),
                      Get(data, "trim_start", PyBool(FALSE)),
                      Get(data, "trim_end", PyBool(FALSE))),
            data))

Pipe_to_dict(c) ==
    add_animation_to_dict(c,
        [k \in {"type", "id", "position", "end_position", "fluid_type", "color",
                "flow_direction", "diameter", "trim_start", "trim_end"} |->
            CASE k = "type" -> PyStr("pipe")
              [] k \in {"position", "end_position", "color"} -> ToList(c.attrs[k])
              [] OTHER -> c.attrs[k]])

Elbow_init(position, connector_type, color, component_id, size, rotation, diameter) ==
    [cls |-> "Elbow",
     attrs |-> Component_init(position, component_id) @@
               [a \in {"connector_type", "color", "size", "rotation", "diameter"} |->
                   CASE a = "connector_type" -> connector_type
                     [] a = "color" -> color
                     [] a = "size" -> size
                     [] a = "rotation" -> rotation
                     [] a = "diameter" -> diameter]]

Elbow_from_dict(data) ==
    IF "position" \notin DOMAIN data THEN Raise("KeyError", <<"position">>)
    ELSE IF ~CanTuple(data["position"]) THEN NotIterable
    ELSE IF ~CanTuple(Get(data, "color", DefaultColor)) THEN NotIterable
    ELSE Return(LoadAnimation(
            Elbow_init(ToTuple(data["position"]),
                       Get(data, "connector_type", PyStr("elbow")),
                       ToTuple(Get(data, "color", DefaultColor)),
                       Get(data, "id", PyNone),
                       Get(data, "size", Num(30)),
                       Get(data, "rotation", Num(270)),
                       Get(data, "diameter", Num(20))),
            data))

Elbow_to_dict(c) ==
    add_animation_to_dict(c,
        [k \in {"type", "id", "position", "connector_type", "color", "size",
                "rotation", "diameter"} |->
            CASE k = "type" -> PyStr("elbow")
              [] k \in {"position", "color"} -> ToList(c.attrs[k])
              [] OTHER -> c.attrs[k]])

Tee_init(position, color, component_id, rotation, diameter) ==
    [cls |-> "Tee",
     attrs |-> Component_init(position, component_id) @@
               [a \in {"color", "rotation", "diameter"} |->
                   CASE a = "color" -> color
                     [] a = "rotation" -> rotation
                     [] a = "diameter" -> diameter]]

\* Tee.from_dict reads neither the label keys nor `animation`
Tee_from_dict(data) ==
    IF "position" \notin DOMAIN data THEN Raise("KeyError", <<"position">>)
    ELSE IF ~CanTuple(data["position"]) THEN NotIterable
    ELSE IF ~CanTuple(Get(data, "color", DefaultColor)) THEN NotIterable
    ELSE Return(Tee_init(ToTuple(data["position"]),
                         ToTuple(Get(data, "color", DefaultColor)),
                         Get(data, "id", PyNone),
                         Get(data, "rotation", Num(0)),
                         Get(data, "diameter", Num(20))))

Tee_to_dict(c) ==
    [k \in {"type", "id", "position", "color", "rotation", "diameter"} |->
        CASE k = "type" -> PyStr("tee")
          [] k \in {"position", "color"} -> ToList(c.attrs[k])
          [] OTHER -> c.attrs[k]]

-----------------------------------------------------------------------------
(* components/valve.py: construction and serialization *)

Valve_init(position, state, color, component_id, rotation, diameter) ==
    [cls |-> "Valve",
     attrs |-> Component_init(position, component_id) @@
               [a \in {"state", "color", "rotation", "diameter"} |->
                   CASE a = "state" -> state
                     [] a = "color" -> color
                     [] a = "rotation" -> rotation
                     [] a = "diameter" -> diameter]]

\* the default colour [128, 128, 128] of Valve
DefaultValveColor == List(<<Num(128), Num(128), Num(128)>>)

Valve_from_dict(data) ==
    IF "position" \notin DOMAIN data THEN Raise("KeyError", <<"position">>)
    ELSE IF ~CanTuple(data["position"]) THEN NotIterable
    ELSE IF ~CanTuple(Get(data, "color", DefaultValveColor)) THEN NotIterable
    ELSE Return(LoadAnimation(load_label_from_dict(
            Valve_init(ToTuple(data["position"]),
                       Get(data, "state", PyStr("open")),
                       ToTuple(Get(data, "color", DefaultValveColor)),
                       Get(data, "id", PyNone),
                       Get(data, "rotation", Num(0)),
                       Get(data, "diameter", Num(20))),
            data), data))

Valve_to_dict(c) ==
    add_animation_to_dict(c, add_label_to_dict(c,
        [k \in {"type", "id", "position", "state", "color", "rotation",
                "diameter"} |->
            CASE k = "type" -> PyStr("valve")
              [] k \in {"position", "color"} -> ToList(c.attrs[k])
              [] OTHER -> c.attrs[k]]))

-----------------------------------------------------------------------------
(* components/tank.py *)

\* n percent points on the grid of hundredths
Percent(n) == n * 100

\* sum(fluid.get("percent", 0) for fluid in fluids), fluids a sequence of dicts
RECURSIVE SumPercentGet(_)
SumPercentGet(fluids) ==
    IF Len(fluids) = 0 THEN 0
    ELSE Get(fluids[1].v, "percent", Num(0)).v + SumPercentGet(Tail(fluids))

\* sum(fluid["percent"] for fluid in fluids)
RECURSIVE SumPercent(_)
SumPercent(fluids) ==
    IF Len(fluids) = 0 THEN 0
    ELSE fluids[1].v["percent"].v + SumPercent(Tail(fluids))

\* (percent / total) * initial_fill_percent, for total > 0
ScaleToFill(percent, total, initial_fill_percent) ==
    RoundDiv(percent * initial_fill_percent, total)

\* _normalize_fluid_percentages, on the sequence of fluid dicts
normalize_fluid_percentages(fluids, initial_fill_percent) ==
    IF Len(fluids) = 0 THEN fluids
    ELSE LET total == SumPercentGet(fluids)
         IN  IF total > 0
             THEN [i \in 1..Len(fluids) |->
                     Dict(Put(fluids[i].v, "percent",
                              Num(ScaleToFill(Get(fluids[i].v, "percent", Num(0)).v,
                                              total, initial_fill_percent))))]
             ELSE fluids

\* the single water layer of a Tank built without fluids
DefaultFluids ==
    <<Dict([k \in {"color", "name", "percent", "drain_rate", "fill_rate"} |->
               CASE k = "color" -> List(<<Num(100), Num(150), Num(255)>>)
                 [] k = "name" -> PyStr("water")
                 [] k = "percent" -> Num(Percent(100))
                 [] OTHER -> Num(0)])>>

\* fluid.setdefault("drain_rate", 0.0); fluid.setdefault("fill_rate", 0.0)
WithDefaultRates(fluid) ==
    Dict([k \in DOMAIN fluid.v \cup {"drain_rate", "fill_rate"} |->
             IF k \in DOMAIN fluid.v THEN fluid.v[k] ELSE Num(0)])

\* max(0.0, min(100.0, fill_percent))
ClampFill(fill_percent) == Max(0, Min(Percent(100), fill_percent))

\* Tank.__init__; fluids is None or a list of dicts
Tank_init(position, width, height, top_style, bottom_style, fluids, fill_percent, component_id, wall_thickness) ==
    LET initial == ClampFill(fill_percent.v)
        given == IF fluids = PyNone THEN DefaultFluids
                 ELSE [i \in 1..Len(fluids.v) |-> WithDefaultRates(fluids.v[i])]
    IN  [cls |-> "Tank",
         attrs |-> Component_init(position, component_id) @@
               [a \in {"width", "height", "top_style", "bottom_style",
                       "initial_fill_percent", "fill_percent", "wall_thickness",
                       "fluids", "last_update_time"} |->
                   CASE a = "width" -> width
                     [] a = "height" -> height
                     [] a = "top_style" -> top_style
                     [] a = "bottom_style" -> bottom_style
                     [] a = "initial_fill_percent" -> Num(initial)
                     [] a = "fill_percent" -> Num(initial)
                     [] a = "wall_thickness" -> wall_thickness
                     [] a = "fluids" -> List(normalize_fluid_percentages(given, initial))
                     [] a = "last_update_time" -> Num(0)]]

\* a layer that may fall below 0
UpdatedFluid_unfloored(fluid, dt) ==
    LET net_rate == Get(fluid.v, "fill_rate", Num(0)).v - Get(fluid.v, "drain_rate", Num(0)).v
    IN  Dict(Put(fluid.v, "percent",
                 Num(fluid.v["percent"].v + RoundDiv(net_rate * dt, 1000))))

\* one layer after dt: max(0.0, percent + (fill_rate - drain_rate) * dt)
UpdatedFluid(fluid, dt) ==
    LET net_rate == Get(fluid.v, "fill_rate", Num(0)).v - Get(fluid.v, "drain_rate", Num(0)).v
    IN  Dict(Put(fluid.v, "percent",
                 Num(Max(0, fluid.v["percent"].v + RoundDiv(net_rate * dt, 1000)))))

\* percent *= 100.0 / total_fill, for total_fill > 100
ScaleDown(percent, total_fill) == RoundDiv(percent * Percent(100), total_fill)

\* _update_fluid_levels(time); self.fluids is a list (or a tuple) of dicts
update_fluid_levels(c, t) ==
    IF c.attrs["last_update_time"].v = 0
    THEN [c EXCEPT !.attrs["last_update_time"] = Num(t)]
    ELSE LET dt == t - c.attrs["last_update_time"].v
             old == c.attrs["fluids"].v
             stepped == [i \in 1..Len(old) |-> UpdatedFluid(old[i], dt)]
             total_fill == SumPercent(stepped)
             scaled == [i \in 1..Len(stepped) |->
                          Dict(Put(stepped[i].v, "percent",
                                   Num(ScaleDown(stepped[i].v["percent"].v, total_fill))))]
         IN  IF total_fill > Percent(100)
             THEN [c EXCEPT !.attrs["last_update_time"] = Num(t),
                            !.attrs["fluids"].v = scaled,
                            !.attrs["fill_percent"] = Num(Percent(100))]
             ELSE [c EXCEPT !.attrs["last_update_time"] = Num(t),
                            !.attrs["fluids"].v = stepped,
                            !.attrs["fill_percent"] = Num(total_fill)]

Tank_to_dict(c) ==
    add_animation_to_dict(c, add_label_to_dict(c,
        [k \in {"type", "id", "position", "width", "height", "top_style",
                "bottom_style", "fluids", "fill_percent", "wall_thickness"} |->
            CASE k = "type" -> PyStr("tank")
              [] k = "position" -> ToList(c.attrs[k])
              [] k = "fill_percent" -> c.attrs["initial_fill_percent"]
              [] OTHER -> c.attrs[k]]))

Tank_from_dict(data) ==
    IF "position" \notin DOMAIN data THEN Raise("KeyError", <<"position">>)
    ELSE IF ~CanTuple(data["position"]) THEN NotIterable
    ELSE Return(LoadAnimation(load_label_from_dict(
            Tank_init(ToTuple(data["position"]),
                      Get(data, "width", Num(3)),
                      Get(data, "height", Num(4)),
                      Get(data, "top_style", PyStr("flat")),
                      Get(data, "bottom_style", PyStr("flat")),
                      Get(data, "fluids", PyNone),
                      Get(data, "fill_percent", Num(Percent(75))),
                      Get(data, "id", PyNone),
                      Get(data, "wall_thickness", Num(3))),
            data), data))

-----------------------------------------------------------------------------
(* json_loader.py: JSONLoader *)

\* A text is [wf, value]: whether json.loads can parse it, and the value it
\* parses to.  TextOf(v) is the well-formed text of the JSON value v.
TextOf(v) == [wf |-> TRUE, value |-> v]
MalformedText == [wf |-> FALSE, value |-> PyNone]

\* a dispatch whose error does not name the tag
create_component_unnamed(data) ==
    IF data.tag # "dict" THEN Raise("AttributeError", <<"object has no attribute 'get'">>)
    ELSE LET comp_type == Get(data.v, "type", PyNone)
         IN  CASE comp_type = PyStr("pipe") -> Pipe_from_dict(data.v)
               [] comp_type = PyStr("elbow") -> Elbow_from_dict(data.v)
               [] comp_type = PyStr("tank") -> Tank_from_dict(data.v)
               [] comp_type = PyStr("tee") -> Tee_from_dict(data.v)
               [] OTHER -> Raise("ValueError", <<"Unknown component type">>)

\* _create_component: the dispatch on data.get("type")
create_component(data) ==
    IF data.tag # "dict" THEN Raise("AttributeError", <<"object has no attribute 'get'">>)
    ELSE LET comp_type == Get(data.v, "type", PyNone)
         IN  CASE comp_type = PyStr("pipe") -> Pipe_from_dict(data.v)
               [] comp_type = PyStr("elbow") -> Elbow_from_dict(data.v)
               [] comp_type = PyStr("tank") -> Tank_from_dict(data.v)
               [] comp_type = PyStr("tee") -> Tee_from_dict(data.v)
               [] OTHER -> Raise("ValueError", <<"Unknown component type: ", comp_type>>)

\* a loop that returns what it built when an element fails
RECURSIVE LoadComponents_partial(_, _, _)
LoadComponents_partial(components_data, i, built) ==
    IF i > Len(components_data) \/ ~create_component(components_data[i]).ok
    THEN Return(built)
    ELSE LoadComponents_partial(components_data, i + 1,
                                Append(built, create_component(components_data[i]).value))

\* a loop that puts each new component in front of the earlier ones
RECURSIVE LoadComponents_reversed(_, _, _)
LoadComponents_reversed(components_data, i, built) ==
    IF i > Len(components_data) THEN Return(built)
    ELSE LET component == create_component(components_data[i])
         IN  IF component.ok
             THEN LoadComponents_reversed(components_data, i + 1,
                                          <<component.value>> \o built)
             ELSE component

\* the for loop of load_from_string: components holds what was built so far
RECURSIVE LoadComponents(_, _, _)
LoadComponents(components_data, i, built) ==
    IF i > Len(components_data) THEN Return(built)
    ELSE LET component == create_component(components_data[i])
         IN  IF component.ok
             THEN LoadComponents(components_data, i + 1, Append(built, component.value))
             ELSE component

\* a loader that takes anything but a list of components for an empty one
load_from_string_lenient(json_string) ==
    IF ~json_string.wf THEN Raise("ValueError", <<"Invalid JSON">>)
    ELSE LET data == json_string.value
             components_data == IF data.tag = "dict"
                                THEN Get(data.v, "components", List(<< >>))
                                ELSE List(<< >>)
         IN  IF components_data.tag # "list" THEN Return(<< >>)
             ELSE LoadComponents(components_data.v, 1, << >>)

load_from_string(json_string) ==
    IF ~json_string.wf THEN Raise("ValueError", <<"Invalid JSON">>)
    ELSE LET data == json_string.value
         IN  IF data.tag # "dict" THEN Raise("ValueError", <<"JSON must be an object">>)
             ELSE LET components_data == Get(data.v, "components", List(<< >>))
                  IN  IF components_data.tag # "list"
                      THEN Raise("ValueError", <<"'components' must be an array">>)
                      ELSE LoadComponents(components_data.v, 1, << >>)

\* comp.to_dict()
to_dict(c) ==
    CASE c.cls = "Pipe" -> Dict(Pipe_to_dict(c))
      [] c.cls = "Elbow" -> Dict(Elbow_to_dict(c))
      [] c.cls = "Tank" -> Dict(Tank_to_dict(c))
      [] c.cls = "Tee" -> Dict(Tee_to_dict(c))

\* keys that _compact_json_formatter would have to escape to emit them
\* (it writes f'"{k}"' as is): a key holding a double quote
KeysNeedingEscape == {"a\"b"}

\* whether the text _compact_json_formatter emits for obj is well-formed
RECURSIVE EmitsWellFormed(_)
EmitsWellFormed(obj) ==
    CASE obj.tag = "dict" ->
            /\ DOMAIN obj.v \cap KeysNeedingEscape = {}
            /\ \A k \in DOMAIN obj.v : EmitsWellFormed(obj.v[k])
      [] obj.tag = "list" -> \A i \in 1..Len(obj.v) : EmitsWellFormed(obj.v[i])
      [] OTHER -> TRUE

\* the value a reader gets back from the emitted text: json.dumps writes a
\* tuple as an array
RECURSIVE AsJson(_)
AsJson(obj) ==
    CASE obj.tag = "dict" -> Dict([k \in DOMAIN obj.v |-> AsJson(obj.v[k])])
      [] obj.tag \in {"list", "tuple"} -> List([i \in 1..Len(obj.v) |-> AsJson(obj.v[i])])
      [] OTHER -> obj

compact_json_formatter(obj) == [wf |-> EmitsWellFormed(obj), value |-> AsJson(obj)]

components_to_json(comps) ==
    compact_json_formatter(
        Dict([k \in {"components"} |-> List([i \in 1..Len(comps) |-> to_dict(comps[i])])]))

-----------------------------------------------------------------------------
(* The documents of the model *)

Pos(x, y) == List(<<Num(x), Num(y)>>)
Color(r, g, b) == List(<<Num(r), Num(g), Num(b)>>)

\* keyframes: a timed override, one without a duration that names an
\* attribute no component has, and one whose key the serializer cannot emit
KfNoFlow == Dict([duration |-> Num(2), flow_direction |-> PyStr("none"),
                  color |-> Color(255, 0, 0)])
KfWide == Dict([diameter |-> Num(30), bogus |-> Num(1)])
KfQuoted == Dict([k \in {"duration", "a\"b"} |-> Num(1)])
\* a keyframe that takes the diameter to 0
KfThin == Dict([duration |-> Num(1), diameter |-> Num(0)])

\* fluid layers
\* a layer; percent is in percent points, the rates in percent per second
Fluid(name, color, percent, drain_rate, fill_rate) ==
    Dict([k \in {"color", "name", "percent", "drain_rate", "fill_rate"} |->
             CASE k = "color" -> color
               [] k = "name" -> PyStr(name)
               [] k = "percent" -> Num(Percent(percent))
               [] k = "drain_rate" -> Num(Percent(drain_rate))
               [] k = "fill_rate" -> Num(Percent(fill_rate))])
FluidOil == Fluid("oil", Color(200, 100, 50), 30, 0, 2)
FluidWater == Fluid("water", Color(100, 150, 255), 70, 3, 0)

\* well-formed elements of the four variants the loader constructs
PipeElement == Dict([type |-> PyStr("pipe"), position |-> Pos(0, 0),
                     end_position |-> Pos(4, 0), diameter |-> Num(20)])
AnimatedPipeElement ==
    Dict([type |-> PyStr("pipe"), id |-> PyStr("pipe1"), position |-> Pos(2, 2),
          end_position |-> Pos(2, 6), trim_end |-> PyBool(TRUE),
          animation |-> List(<<KfNoFlow, KfWide>>)])
ElbowElement == Dict([type |-> PyStr("elbow"), position |-> Pos(4, 0)])
QuotedKeyElbow == Dict([type |-> PyStr("elbow"), position |-> Pos(8, 2),
                        animation |-> List(<<KfQuoted>>)])
TeeElement == Dict([type |-> PyStr("tee"), position |-> Pos(2, 2),
                    rotation |-> Num(90), animation |-> List(<<KfWide>>)])
TankElement == Dict([type |-> PyStr("tank"), position |-> Pos(10, 2),
                     fill_percent |-> Num(Percent(70)), show_label |-> PyBool(FALSE),
                     fluids |-> List(<<FluidOil, FluidWater>>)])
PlainTankElement == Dict([type |-> PyStr("tank"), position |-> Pos(1, 1),
                          fill_percent |-> Num(Percent(150))])
LoadableElements == {PipeElement, AnimatedPipeElement, ElbowElement, QuotedKeyElbow,
                     TeeElement, TankElement, PlainTankElement}

\* well-formed elements of the other six variants
OtherVariantTags == {"valve", "pump", "three_way_valve", "four_way_valve",
                     "sensor", "heat_exchanger"}
VariantElement(tag) == Dict([type |-> PyStr(tag), position |-> Pos(2, 2)])

\* elements that are no component: an unknown tag, no tag, a missing or
\* non-iterable required field, and a non-object
WidgetElement == Dict([type |-> PyStr("widget"), position |-> Pos(0, 0)])
UntypedElement == Dict([position |-> Pos(0, 0)])
PipeWithoutEnd == Dict([type |-> PyStr("pipe"), position |-> Pos(0, 0)])
ElbowBadPosition == Dict([type |-> PyStr("elbow"), position |-> Num(3)])
BrokenElements == {WidgetElement, UntypedElement, PipeWithoutEnd, ElbowBadPosition, Num(5)}

\* elements whose position is a list, but not a pair of numbers
TriplePositionPipe == Dict([type |-> PyStr("pipe"), end_position |-> Pos(4, 0),
                            position |-> List(<<Num(1), Num(2), Num(3)>>)])
NamedPositionElbow == Dict([type |-> PyStr("elbow"),
                            position |-> List(<<PyStr("a"), PyStr("b")>>)])
MisshapenElements == {TriplePositionPipe, NamedPositionElbow}

Elements == LoadableElements \cup {VariantElement(t) : t \in OtherVariantTags}
            \cup BrokenElements \cup MisshapenElements

\* the longest `components` array of a document
MaxComponents == 2

RECURSIVE SeqsUpTo(_, _)
SeqsUpTo(S, n) ==
    IF n = 0 THEN {<< >>}
    ELSE LET shorter == SeqsUpTo(S, n - 1)
         IN  shorter \cup {Append(s, e) : s \in {x \in shorter : Len(x) = n - 1}, e \in S}

SceneText(elements) == TextOf(Dict([components |-> List(elements)]))

\* texts that are no scene document, and an object without `components`
StructuralDocs ==
    {MalformedText,
     TextOf(List(<<PipeElement>>)),
     TextOf(Num(1)),
     TextOf(Dict([components |-> PyNone])),
     TextOf(Dict([components |-> PipeElement])),
     TextOf(Dict([scene |-> List(<<PipeElement>>)])),
     TextOf(Dict(<< >>))}

Docs == StructuralDocs \cup {SceneText(es) : es \in SeqsUpTo(Elements, MaxComponents)}

-----------------------------------------------------------------------------
(* Values of the variables a specification does not use *)

IdleAnim == ctrl = AnimationController(<< >>) /\ time = 0 /\ active = -1
IdleOverride == comp = PyNone /\ originals = << >> /\ saved = PyNone /\ phase = "idle"
IdleTank == tank = PyNone /\ tank_time = 0 /\ first_update = -1
IdleLoader == doc = MalformedText /\ loaded = PyNone /\ previous = PyNone
IdleApp == /\ json_text = MalformedText /\ components = << >>
           /\ error_message = PyNone /\ viz_zoom = 1000 /\ app_time = 0
           /\ viz_pan_x = 0 /\ viz_pan_y = 0 /\ zoom_events = 0
           /\ frames = 0 /\ baseline = PyNone /\ render_error = PyNone
           /\ steps = << >> /\ cursor = <<0, 0>>
IdleDraw == shape = PyNone /\ render_args = PyNone /\ drawing = PyNone

-----------------------------------------------------------------------------
(* SpecLoader: load_from_string and components_to_json on the documents *)

\* a text to load
InitLoader ==
    /\ doc \in Docs
    /\ loaded = PyNone
    /\ previous = PyNone
    /\ IdleAnim /\ IdleOverride /\ IdleTank /\ IdleApp /\ IdleDraw

\* load_from_string(doc)
LoadDoc ==
    /\ loaded = PyNone
    /\ loaded' = load_from_string(doc)
    /\ UNCHANGED <<doc, previous, animVars, overrideVars, tankVars, appVars, drawVars>>

\* load_from_string(components_to_json(scene)) for the scene just loaded
Reserialize ==
    /\ loaded # PyNone
    /\ loaded.ok
    /\ previous = PyNone
    /\ doc' = components_to_json(loaded.value)
    /\ loaded' = load_from_string(doc')
    /\ previous' = List(loaded.value)
    /\ UNCHANGED <<animVars, overrideVars, tankVars, appVars, drawVars>>

NextLoader == LoadDoc \/ Reserialize

SpecLoader == InitLoader /\ [][NextLoader]_vars

-----------------------------------------------------------------------------
(* Claims about the loader, checked under SpecLoader *)

\* doc parses to an object whose `components` is an array (or is absent)
HasComponentsArray(d) ==
    /\ d.wf
    /\ d.value.tag = "dict"
    /\ Get(d.value.v, "components", List(<< >>)).tag = "list"

ComponentsData(d) == Get(d.value.v, "components", List(<< >>)).v

\* the tags the loader dispatches on
RecognizedTags == {PyStr("pipe"), PyStr("elbow"), PyStr("tank"), PyStr("tee")}

HasUnrecognizedTag(e) ==
    e.tag = "dict" /\ "type" \in DOMAIN e.v /\ e.v["type"] \notin RecognizedTags

\* C4: parse(serialize(parse(doc))) is the same scene as parse(doc): the
\* reload of the serialized scene succeeds and yields the same number of
\* components, of the same types in the same order, with the same field values.
C4_RoundTrip ==
    previous # PyNone => loaded.ok /\ loaded.value = previous.v

\* C7: a document holding an element with an unrecognized type tag, all its
\* other elements being valid, fails with a ValueError whose message names
\* that tag, and no components are returned.
C7_UnknownTagNamed ==
    (loaded # PyNone /\ HasComponentsArray(doc)) =>
        \A i \in 1..Len(ComponentsData(doc)) :
            ( /\ HasUnrecognizedTag(ComponentsData(doc)[i])
              /\ \A j \in (1..Len(ComponentsData(doc))) \ {i} :
                    ComponentsData(doc)[j] \in LoadableElements )
            => loaded = Raise("ValueError", <<"Unknown component type: ",
                                              ComponentsData(doc)[i].v["type"]>>)

C7_Witness ==
    /\ doc = SceneText(<<PipeElement, WidgetElement>>)
    /\ loaded # PyNone
    /\ ~loaded.ok
    /\ loaded.msg = <<"Unknown component type: ", PyStr("widget")>>

\* the variant each type tag stands for
VariantClass(tag) ==
    CASE tag = "pipe" -> "Pipe"
      [] tag = "elbow" -> "Elbow"
      [] tag = "tee" -> "Tee"
      [] tag = "three_way_valve" -> "ThreeWayValve"
      [] tag = "four_way_valve" -> "FourWayValve"
      [] tag = "tank" -> "Tank"
      [] tag = "valve" -> "Valve"
      [] tag = "pump" -> "Pump"
      [] tag = "sensor" -> "Sensor"
      [] tag = "heat_exchanger" -> "HeatExchanger"

\* one well-formed element per variant
WellFormedElement(tag) ==
    CASE tag = "pipe" -> PipeElement
      [] tag = "elbow" -> ElbowElement
      [] tag = "tee" -> TeeElement
      [] tag = "tank" -> PlainTankElement
      [] OTHER -> VariantElement(tag)

\* C8: for each of the ten variants, loading a document with one well-formed
\* element carrying the variant's type tag returns exactly one component of
\* that variant.
C8_EveryVariantLoads ==
    \A tag \in {"pipe", "elbow", "tee", "tank"} \cup OtherVariantTags :
        (loaded # PyNone /\ doc = SceneText(<<WellFormedElement(tag)>>)) =>
            /\ loaded.ok
            /\ Len(loaded.value) = 1
            /\ loaded.value[1].cls = VariantClass(tag)

\* C9: load_from_string either returns one fully constructed component per
\* element of `components`, in order, or fails and returns no list at all;
\* with an invalid element at any index it fails, whatever was built before.
C9_AllOrNothing ==
    loaded # PyNone =>
    /\ \/ /\ loaded.ok
          /\ HasComponentsArray(doc)
          /\ Len(loaded.value) = Len(ComponentsData(doc))
          /\ \A i \in 1..Len(loaded.value) :
                /\ create_component(ComponentsData(doc)[i]).ok
                /\ loaded.value[i] = create_component(ComponentsData(doc)[i]).value
       \/ /\ ~loaded.ok
          /\ "value" \notin DOMAIN loaded
    /\ ( /\ HasComponentsArray(doc)
         /\ \E i \in 1..Len(ComponentsData(doc)) :
                ~create_component(ComponentsData(doc)[i]).ok )
       => ~loaded.ok

C9_Witness ==
    /\ doc = SceneText(<<TankElement, PipeWithoutEnd>>)
    /\ loaded # PyNone
    /\ ~loaded.ok
    /\ "value" \notin DOMAIN loaded

\* C10: load_from_string fails with a format error when the text is not
\* well-formed JSON, when the top-level value is not an object, or when
\* `components` is present but not an array; an object without a
\* `components` key loads as an empty scene.
C10_FormatErrors ==
    loaded # PyNone =>
    /\ ~doc.wf => loaded = Raise("ValueError", <<"Invalid JSON">>)
    /\ (doc.wf /\ doc.value.tag # "dict")
          => loaded = Raise("ValueError", <<"JSON must be an object">>)
    /\ ( /\ doc.wf /\ doc.value.tag = "dict"
         /\ "components" \in DOMAIN doc.value.v
         /\ doc.value.v["components"].tag # "list" )
          => loaded = Raise("ValueError", <<"'components' must be an array">>)
    /\ (doc.wf /\ doc.value.tag = "dict" /\ "components" \notin DOMAIN doc.value.v)
          => loaded = Return(<< >>)

C10_Witness ==
    /\ doc = TextOf(Dict([components |-> PyNone]))
    /\ loaded # PyNone
    /\ ~loaded.ok
    /\ loaded.exc = "ValueError"

\* C14: the order of components is preserved: load_from_string returns the
\* components in the order of the document's `components` array, and
\* components_to_json emits them in list order, so the i-th element of the
\* document, the i-th component and the i-th element of the re-serialized
\* document correspond.
C14_OrderPreserved ==
    /\ (loaded # PyNone /\ loaded.ok /\ previous = PyNone) =>
          /\ Len(loaded.value) = Len(ComponentsData(doc))
          /\ \A i \in 1..Len(loaded.value) :
                loaded.value[i] = create_component(ComponentsData(doc)[i]).value
    /\ previous # PyNone =>
          /\ Len(ComponentsData(doc)) = Len(previous.v)
          /\ \A i \in 1..Len(previous.v) :
                ComponentsData(doc)[i] = to_dict(previous.v[i])

C14_Witness ==
    /\ previous # PyNone
    /\ Len(previous.v) = 2
    /\ previous.v[1].cls = "Tank" /\ previous.v[2].cls = "Pipe"
    /\ ComponentsData(doc)[1].v["type"] = PyStr("tank")
    /\ ComponentsData(doc)[2].v["type"] = PyStr("pipe")

\* a 2-element pair of numbers (the numbers of the model are whole)
IsIntegerPair(p) ==
    /\ p.tag \in {"list", "tuple"}
    /\ Len(p.v) = 2
    /\ \A k \in 1..2 : p.v[k].tag = "num"

\* C11: loading fails, and returns no scene, for any element whose position
\* is missing or is not a 2-element numeric pair; no successfully loaded
\* component has a position that is not a pair of integers.
C11_PositionChecked ==
    loaded # PyNone =>
    /\ ( /\ HasComponentsArray(doc)
         /\ \E i \in 1..Len(ComponentsData(doc)) :
                LET e == ComponentsData(doc)[i]
                IN  e.tag = "dict" /\ ("position" \notin DOMAIN e.v
                                       \/ ~IsIntegerPair(e.v["position"])) )
       => ~loaded.ok
    /\ loaded.ok =>
          \A i \in 1..Len(loaded.value) : IsIntegerPair(loaded.value[i].attrs["position"])

-----------------------------------------------------------------------------
(* SpecAnim: a controller built from a keyframe list and queried at times *)

\* the keyframes a list is drawn from: durations that are negative, zero,
\* missing and positive
KfMissing == Dict([state |-> PyStr("open")])
KfDuration(d) == Dict([duration |-> Num(d), state |-> PyStr("closed")])
DurationInputs == {-2, 0, 1, 2, 3}
KeyframeInputs == {KfMissing} \cup {KfDuration(d) : d \in DurationInputs}

\* the longest keyframe list, and the range of query times in ticks
MaxKeyframes == 3
MaxTime == 8
Times == (0 - MaxTime)..MaxTime

\* AnimationController(keyframes): built once, immutable thereafter
InitAnim ==
    /\ \E keyframes \in SeqsUpTo(KeyframeInputs, MaxKeyframes) :
          ctrl = AnimationController(keyframes)
    /\ time = 0
    /\ active = get_active_keyframe_index(ctrl, 0)
    /\ IdleOverride /\ IdleTank /\ IdleLoader /\ IdleApp /\ IdleDraw

\* get_active_keyframe_index(t)
Query(t) ==
    /\ time' = t
    /\ active' = get_active_keyframe_index(ctrl, t)
    /\ UNCHANGED <<ctrl, overrideVars, tankVars, loaderVars, appVars, drawVars>>

NextAnim == \E t \in Times : Query(t)

SpecAnim == InitAnim /\ [][NextAnim]_vars

\* the number of whole cycles a time is shifted by
MaxCycles == 3

\* C1: for every keyframe list and every time t, negative ones included,
\* get_active_keyframe_index(t) is defined, and shifting t by any whole number
\* of cycles of total_duration gives the same index.
C1_PeriodicIndex ==
    /\ active \in (0 - 1)..(Len(ctrl.keyframes) - 1)
    /\ \A k \in (0 - MaxCycles)..MaxCycles :
          get_active_keyframe_index(ctrl, time + k * ctrl.total_duration) = active

C1_Witness ==
    /\ Len(ctrl.keyframes) = 2
    /\ ctrl.total_duration = 4
    /\ time = 0 - 3
    /\ active = 1

\* the sum of the first i stored durations
RECURSIVE SumBefore(_, _)
SumBefore(d, i) == IF i = 0 THEN 0 ELSE SumBefore(d, i - 1) + d[i]

\* C17: with n >= 1 keyframes and stored durations d[0..n-1],
\* get_active_keyframe_index(t) is the unique i in 0..n-1 with
\* sum(d[0..i-1]) <= (t mod total_duration) < sum(d[0..i]); it is never outside
\* 0..n-1, and it is -1 exactly when the controller has no keyframes.
C17_ActiveInterval ==
    LET n == Len(ctrl.keyframes)
        d == ctrl.durations
    IN  /\ n >= 1 =>
             /\ active \in 0..(n - 1)
             /\ \A i \in 0..(n - 1) :
                   ( /\ SumBefore(d, i) <= time % ctrl.total_duration
                     /\ time % ctrl.total_duration < SumBefore(d, i + 1) ) <=> i = active
        /\ active = -1 <=> n = 0

C17_Witness ==
    /\ ctrl.durations = <<1, 2, 3>>
    /\ time = 7
    /\ active = 1

\* C18: after construction from any keyframe list (durations zero, negative or
\* missing included) every stored duration is strictly positive,
\* total_duration is the sum of the stored durations, and total_duration > 0
\* if and only if the list is non-empty.
C18_DurationsPositive ==
    /\ Len(ctrl.durations) = Len(ctrl.keyframes)
    /\ \A i \in 1..Len(ctrl.durations) : ctrl.durations[i] > 0
    /\ ctrl.total_duration = SumBefore(ctrl.durations, Len(ctrl.durations))
    /\ ctrl.total_duration > 0 <=> Len(ctrl.keyframes) > 0

\* a controller built from a keyframe without duration, one of duration 3 and
\* one more keyframe whose duration was raised to the minimum
C18_Witness ==
    /\ Len(ctrl.keyframes) = 3
    /\ ctrl.keyframes[1] = KfMissing
    /\ ctrl.durations = <<MinDuration, 3, MinDuration>>
    /\ ctrl.total_duration = 5

\* C19: as time increases through one cycle [0, total_duration) the active
\* index is non-decreasing, takes every value 0, 1, ..., n-1 in that order
\* (no keyframe skipped, none out of list order), stays at i for exactly
\* duration[i] of time, and wraps to 0 at t = total_duration.
C19_CycleInOrder ==
    LET n == Len(ctrl.keyframes)
        total == ctrl.total_duration
        index(t) == get_active_keyframe_index(ctrl, t)
    IN  n >= 1 =>
           /\ index(0) = 0
           /\ \A t \in 0..(total - 2) : index(t + 1) \in {index(t), index(t) + 1}
           /\ \A i \in 0..(n - 1) :
                 Cardinality({t \in 0..(total - 1) : index(t) = i}) = ctrl.durations[i + 1]
           /\ index(total - 1) = n - 1
           /\ index(total) = 0
           /\ time = total => active = 0

C19_Witness ==
    /\ ctrl.durations = <<2, 1, 3>>
    /\ time = ctrl.total_duration
    /\ active = 0

-----------------------------------------------------------------------------
(* SpecOverride: apply_animation and restore_properties on one component *)

\* an override of attributes of the base class, the animation data included
KfBase == Dict(("duration" :> Num(1)) @@ ("position" :> Pos(9, 9)) @@
               ("id" :> PyStr("moved")) @@ ("_animation_data" :> PyNone) @@
               ("fill_percent" :> Num(Percent(5))))
OverrideKeyframes == {KfNoFlow, KfWide, KfBase, KfThin}

\* the longest animation of the component under test, and the latest time
MaxOverrideKeyframes == 2
MaxOverrideTime == 4

OverrideElements ==
    {PipeElement, ElbowElement, TeeElement, TankElement} \cup
    {Dict(Put(e.v, "animation", List(kfs))) :
        e \in {PipeElement, ElbowElement, TankElement},
        kfs \in SeqsUpTo(OverrideKeyframes, MaxOverrideKeyframes)}

InitOverride ==
    /\ \E e \in OverrideElements : comp = create_component(e).value
    /\ originals = << >>
    /\ saved = comp
    /\ phase = "idle"
    /\ IdleAnim /\ IdleTank /\ IdleLoader /\ IdleApp /\ IdleDraw

\* originals = component.apply_animation(t)
Apply(t) ==
    /\ phase \in {"idle", "restored"}
    /\ saved' = comp
    /\ comp' = apply_animation(comp, t).component
    /\ originals' = apply_animation(comp, t).originals
    /\ phase' = "applied"
    /\ UNCHANGED <<animVars, tankVars, loaderVars, appVars, drawVars>>

\* component.restore_properties(originals)
Restore ==
    /\ phase = "applied"
    /\ comp' = restore_properties(comp, originals)
    /\ phase' = "restored"
    /\ UNCHANGED <<originals, saved, animVars, tankVars, loaderVars, appVars, drawVars>>

NextOverride == (\E t \in 0..MaxOverrideTime : Apply(t)) \/ Restore

SpecOverride == InitOverride /\ [][NextOverride]_vars

UnanimatedElements ==
    {e \in OverrideElements :
        "animation" \notin DOMAIN e.v \/ e.v["animation"] = List(<< >>)}

\* C12: for every component with no animation (no `animation` key, or an
\* empty keyframe list), apply_animation(t) returns an empty mapping and
\* changes no attribute of the component, for every time t.
C12_UnanimatedUntouched ==
    ( /\ phase = "applied"
      /\ \E e \in UnanimatedElements : saved = create_component(e).value )
    => (originals = << >> /\ comp = saved)

C12_Witness ==
    /\ phase = "applied"
    /\ saved = create_component(Dict(Put(TankElement.v, "animation", List(<< >>)))).value
    /\ originals = << >>
    /\ comp = saved

\* C13: every loaded component that has a diameter has diameter > 0, right
\* after loading and during and after every apply_animation /
\* restore_properties step.
C13_DiameterPositive ==
    hasattr(comp, "diameter") => comp.attrs["diameter"].v > 0

\* the override names of keyframe kf that are attributes of component c
ExistingNames(kf, c) == (DOMAIN kf.v \ {"duration"}) \cap DOMAIN c.attrs

-----------------------------------------------------------------------------
(* SpecTank: a Tank from construction through update calls at any times *)

\* layers of the tanks under test: percent inputs that are negative, positive
\* and zero, with a net fill, a net drain, and no rate keys at all
PercentInputs == {-20, 30}
RatedFluids ==
    {Fluid("a", Color(1, 2, 3), p, r[1], r[2]) :
        p \in PercentInputs, r \in {<<0, 20>>, <<30, 0>>}}
UnratedFluid == Dict([color |-> Color(9, 9, 9), percent |-> Num(0)])
FluidInputs == RatedFluids \cup {UnratedFluid}

\* fill_percent inputs, in percent points: in range and above it
FillInputs == {70, 150}

\* the most layers of a tank, and the latest update time (seconds)
MaxFluids == 2
MaxTankTime == 3

TankInputs ==
    {Dict([type |-> PyStr("tank"), position |-> Pos(0, 0)])} \cup
    {Dict([type |-> PyStr("tank"), position |-> Pos(0, 0),
           fill_percent |-> Num(Percent(f)), fluids |-> List(fl)]) :
        f \in FillInputs, fl \in SeqsUpTo(FluidInputs, MaxFluids)}

InitTank ==
    /\ \E e \in TankInputs : tank = Tank_from_dict(e.v).value
    /\ tank_time = 0
    /\ first_update = -1
    /\ IdleAnim /\ IdleOverride /\ IdleLoader /\ IdleApp /\ IdleDraw

\* _update_fluid_levels(t), t in whole seconds; render passes the application's
\* time, which never decreases
UpdateTank(t) ==
    /\ t * 1000 >= tank_time
    /\ tank' = update_fluid_levels(tank, t * 1000)
    /\ tank_time' = t * 1000
    /\ first_update' = IF first_update = -1 THEN t * 1000 ELSE first_update
    /\ UNCHANGED <<animVars, overrideVars, loaderVars, appVars, drawVars>>

NextTank == \E t \in 0..MaxTankTime : UpdateTank(t)

SpecTank == InitTank /\ [][NextTank]_vars

\* C3: for any Tank and any sequence of update calls at any times, in every
\* state from construction onward the sum of all fluid percent values is at
\* most 100 and at least 0.
C3_SumWithinCapacity ==
    /\ SumPercent(tank.attrs["fluids"].v) >= 0
    /\ SumPercent(tank.attrs["fluids"].v) <= Percent(100)

\* the percent of layer i of a tank, and the next call's elapsed time
LayerPercent(t, i) == t.attrs["fluids"].v[i].v["percent"].v
Elapsed == tank_time' - tank.attrs["last_update_time"].v

\* max(0, percent + (fill_rate - drain_rate) * dt) of layer i, dt in ticks
Accumulated(i) ==
    LET layer == tank.attrs["fluids"].v[i].v
        change == (layer["fill_rate"].v - layer["drain_rate"].v) * Elapsed
    IN  Max(0, layer["percent"].v + RoundDiv(change, 1000))

RECURSIVE AccumulatedSum(_)
AccumulatedSum(n) == IF n = 0 THEN 0 ELSE AccumulatedSum(n - 1) + Accumulated(n)

\* C21: one Tank update step with elapsed time dt first sets each layer's
\* percent to max(0, percent + (fill_rate - drain_rate) * dt); then, if the sum
\* of the layers exceeds 100, every layer is multiplied by 100/sum (the grid
\* value nearest to it) and fill_percent is set to 100; otherwise fill_percent
\* is set to the sum.
C21_UpdateStep ==
    [][tank.attrs["last_update_time"].v # 0 =>
          LET n == Len(tank.attrs["fluids"].v)
              sum == AccumulatedSum(n)
          IN  /\ Len(tank'.attrs["fluids"].v) = n
              /\ IF sum > Percent(100)
                 THEN /\ \A i \in 1..n :
                            LET off == LayerPercent(tank', i) * sum
                                       - Accumulated(i) * Percent(100)
                            IN  2 * off <= sum /\ 2 * (0 - off) <= sum
                      /\ tank'.attrs["fill_percent"].v = Percent(100)
                 ELSE /\ \A i \in 1..n : LayerPercent(tank', i) = Accumulated(i)
                      /\ tank'.attrs["fill_percent"].v = sum]_vars

\* a single layer of 70 filling at 20 per second, two seconds after the first
\* update recorded the time: 110 is scaled down to 100
C21_Witness ==
    /\ tank.attrs["initial_fill_percent"].v = Percent(70)
    /\ Len(tank.attrs["fluids"].v) = 1
    /\ tank.attrs["fluids"].v[1].v["fill_rate"].v = Percent(20)
    /\ tank.attrs["last_update_time"].v = 3000
    /\ LayerPercent(tank, 1) = Percent(100)
    /\ tank.attrs["fill_percent"].v = Percent(100)

\* layer i after the time since the previous call, before any clamping
Unclamped(i) ==
    LET layer == tank.attrs["fluids"].v[i].v
        change == (layer["fill_rate"].v - layer["drain_rate"].v) * (tank_time' - tank_time)
    IN  layer["percent"].v + RoundDiv(change, 1000)

\* C27: a Tank does not apply the time before its first update: the first
\* update call only records the time and changes no level, and every later
\* call, whatever the time t1 >= 0 of the first one (t1 = 0 included), moves
\* each layer by (fill_rate - drain_rate) times the time since the previous
\* call, so that after calls at t1 < ... < tn the change before clamping is
\* (fill_rate - drain_rate) * (tn - t1).
C27_ElapsedSinceFirstUpdate ==
    [][IF first_update = -1
       THEN /\ tank'.attrs["fluids"] = tank.attrs["fluids"]
            /\ tank'.attrs["fill_percent"] = tank.attrs["fill_percent"]
       ELSE (tank'.attrs["fill_percent"].v < Percent(100)) =>
               \A i \in 1..Len(tank.attrs["fluids"].v) :
                   Unclamped(i) >= 0 => LayerPercent(tank', i) = Unclamped(i)]_vars

\* C28: in every state of a Tank, from construction onward and after every
\* update, fill_percent equals the sum of its fluids' percent values and lies
\* in [0, 100].
C28_FillIsSumOfLayers ==
    /\ tank.attrs["fill_percent"].v = SumPercent(tank.attrs["fluids"].v)
    /\ tank.attrs["fill_percent"].v >= 0
    /\ tank.attrs["fill_percent"].v <= Percent(100)

-----------------------------------------------------------------------------
(* Rendering: what render(surface, grid_size, offset, time) does to the   *)
(* component and whether it raises; the pixels drawn are not modelled      *)

\* viz_zoom = 1.0 in thousandths
ZoomUnit == 1000

\* the blinking marks: alpha = (sin(time * 2.0 * 2 * pi) + 1) / 2 has period
\* 0.5 s = 500 ticks, and alpha < 0.3 exactly on ticks 283..467 of a period
BlinkPeriod == 500
HiddenFrom == 283
HiddenTo == 467
BlinkVisible(t) == ~((t % BlinkPeriod) >= HiddenFrom /\ (t % BlinkPeriod) <= HiddenTo)

Rendered(c) == [component |-> c, error |-> PyNone]
Faulted(c, type, msg) == [component |-> c, error |-> Raise(type, msg)]

\* Pipe.render; zoom = grid_size / 50.0. With scaled_diameter = 0 the trim
\* distance is 0, so the drawn length is 0 exactly when the two ends coincide
Pipe_render(c, zoom, t) ==
    LET scaled_diameter == TruncDiv(c.attrs["diameter"].v * zoom, ZoomUnit)
        length_zero == c.attrs["position"].v = c.attrs["end_position"].v
    IN  IF c.attrs["flow_direction"] = PyStr("none")
        THEN \* _render_blinking_marks: length / mark_spacing
             IF length_zero \/ ~BlinkVisible(t) THEN Rendered(c)
             ELSE IF scaled_diameter = 0
                  THEN Faulted(c, "ZeroDivisionError", <<"float division by zero">>)
                  ELSE Rendered(c)
        ELSE \* _render_flow_arrows: (time * animation_speed) % arrow_spacing
             IF length_zero THEN Rendered(c)
             ELSE IF scaled_diameter = 0
                  THEN Faulted(c, "ZeroDivisionError", <<"float modulo">>)
                  ELSE Rendered(c)

\* render's base grid size: zoom = grid_size / 50.0
BaseGridSize == 50

\* the integer square root; math.sqrt(dx * dx + dy * dy) is exact on it when the
\* pipe lies along an axis or spans a Pythagorean triple of cells
RECURSIVE ISqrtFrom(_, _)
ISqrtFrom(n, r) == IF (r + 1) * (r + 1) > n THEN r ELSE ISqrtFrom(n, r + 1)

ISqrt(n) == ISqrtFrom(n, 0)

\* a pipe whose ends are always trimmed
Pipe_body_trimmed(c, grid_size, offset) ==
    LET zoom == grid_size \div BaseGridSize
        scaled_diameter == TruncDiv(c.attrs["diameter"].v * zoom, ZoomUnit)
        gx == c.attrs["end_position"].v[1].v - c.attrs["position"].v[1].v
        gy == c.attrs["end_position"].v[2].v - c.attrs["position"].v[2].v
        cells == ISqrt(gx * gx + gy * gy)
        start_x == c.attrs["position"].v[1].v * grid_size + offset[1] * 100
        start_y == c.attrs["position"].v[2].v * grid_size + offset[2] * 100
        end_x == c.attrs["end_position"].v[1].v * grid_size + offset[1] * 100
        end_y == c.attrs["end_position"].v[2].v * grid_size + offset[2] * 100
        trimming == cells * grid_size > 0
        trim_distance == scaled_diameter * 1250
        trim_x == RoundDiv(gx * trim_distance, cells)
        trim_y == RoundDiv(gy * trim_distance, cells)
    IN  [start |-> IF trimming
                   THEN <<start_x + trim_x, start_y + trim_y>> ELSE <<start_x, start_y>>,
         end |-> IF trimming
                 THEN <<end_x - trim_x, end_y - trim_y>> ELSE <<end_x, end_y>>,
         width |-> scaled_diameter]

\* Pipe.render up to the pygame.draw.line of the body: the two ends of the line
\* and its width.  grid_size and the ends are in thousandths of a pixel, offset
\* in tenths.  dir_x = dx / length is the cell difference over the cell distance
Pipe_body(c, grid_size, offset) ==
    LET zoom == grid_size \div BaseGridSize
        scaled_diameter == TruncDiv(c.attrs["diameter"].v * zoom, ZoomUnit)
        gx == c.attrs["end_position"].v[1].v - c.attrs["position"].v[1].v
        gy == c.attrs["end_position"].v[2].v - c.attrs["position"].v[2].v
        cells == ISqrt(gx * gx + gy * gy)
        start_x == c.attrs["position"].v[1].v * grid_size + offset[1] * 100
        start_y == c.attrs["position"].v[2].v * grid_size + offset[2] * 100
        end_x == c.attrs["end_position"].v[1].v * grid_size + offset[1] * 100
        end_y == c.attrs["end_position"].v[2].v * grid_size + offset[2] * 100
        trimming == /\ Truthy(c.attrs["trim_start"]) \/ Truthy(c.attrs["trim_end"])
                    /\ cells * grid_size > 0
        trim_distance == scaled_diameter * 1250
        trim_x == RoundDiv(gx * trim_distance, cells)
        trim_y == RoundDiv(gy * trim_distance, cells)
    IN  [start |-> IF trimming /\ Truthy(c.attrs["trim_start"])
                   THEN <<start_x + trim_x, start_y + trim_y>> ELSE <<start_x, start_y>>,
         end |-> IF trimming /\ Truthy(c.attrs["trim_end"])
                 THEN <<end_x - trim_x, end_y - trim_y>> ELSE <<end_x, end_y>>,
         width |-> scaled_diameter]

\* an overlay that does not blink
draw_flashing_x_steady(t) == TRUE

\* Valve._draw_flashing_x: whether the two lines of the X are drawn at time t
\* (alpha = (sin(time * 2.0 * 2 * pi) + 1) / 2, nothing drawn when alpha < 0.3)
draw_flashing_x(t) == BlinkVisible(t)

\* Valve.render: pipe_width / valve_body_diameter divides by int(pipe_width * 1.5);
\* the X is drawn on a closed valve only
Valve_render(c, zoom, t) ==
    LET pipe_width == TruncDiv(c.attrs["diameter"].v * zoom, ZoomUnit)
        valve_body_diameter == TruncDiv(pipe_width * 3, 2)
    IN  IF valve_body_diameter = 0
        THEN Faulted(c, "ZeroDivisionError", <<"division by zero">>) @@ [x_mark |-> FALSE]
        ELSE Rendered(c) @@
             [x_mark |-> c.attrs["state"] = PyStr("closed") /\ draw_flashing_x(t)]

\* Elbow.render and Tee.render draw from position, size, rotation and
\* diameter; they write no attribute and divide by constants only
Elbow_render(c, zoom, t) == Rendered(c)

Tee_render(c, zoom, t) == Rendered(c)

\* Tank.render: _update_fluid_levels(time), then _render_fluids reads
\* fluid["color"] of every layer with percent > 0
Tank_render(c, zoom, t) ==
    LET updated == update_fluid_levels(c, t)
        fluids == updated.attrs["fluids"].v
    IN  IF /\ updated.attrs["fill_percent"].v > 0
           /\ \E i \in 1..Len(fluids) :
                 fluids[i].v["percent"].v > 0 /\ "color" \notin DOMAIN fluids[i].v
        THEN Faulted(updated, "KeyError", <<"color">>)
        ELSE Rendered(updated)

render(c, zoom, t) ==
    CASE c.cls = "Pipe" -> Pipe_render(c, zoom, t)
      [] c.cls = "Elbow" -> Elbow_render(c, zoom, t)
      [] c.cls = "Tee" -> Tee_render(c, zoom, t)
      [] c.cls = "Tank" -> Tank_render(c, zoom, t)
      [] c.cls = "Valve" -> Valve_render(c, zoom, t)

-----------------------------------------------------------------------------
(* app.py: ProcessSketcherApp *)

\* the visualization pane of the default 1600 x 900 window, and the grid cell
VizWidth == 800
WindowHeight == 900
CellSize == 50

\* the loop of _render_viz_pane from component i on: apply_animation, render,
\* restore_properties; an exception leaves the loop where it is raised
Step(op, i, captured) == [op |-> op, component |-> i, originals |-> captured]

RECURSIVE RenderComponents(_, _, _, _)
RenderComponents(comps, i, t, zoom) ==
    IF i > Len(comps) THEN [components |-> comps, error |-> PyNone, steps |-> << >>]
    ELSE LET applied == apply_animation(comps[i], t)
             drawn == render(applied.component, zoom, t)
         IN  IF drawn.error # PyNone
             THEN [components |-> [comps EXCEPT ![i] = drawn.component],
                   error |-> drawn.error @@ [component |-> i],
                   steps |-> <<Step("apply_animation", i, applied.originals),
                               Step("render", i, << >>)>>]
             ELSE LET rest == RenderComponents(
                                  [comps EXCEPT ![i] = restore_properties(drawn.component,
                                                                          applied.originals)],
                                  i + 1, t, zoom)
                  IN  [rest EXCEPT !.steps = <<Step("apply_animation", i, applied.originals),
                                               Step("render", i, << >>),
                                               Step("restore_properties", i, << >>)>> \o @]

\* _render_grid_with_zoom: range(start, width, int(cell_size)) rejects step 0
GridStep(zoom) == TruncDiv(CellSize * zoom, ZoomUnit)

\* a bounding box that leaves the pipes' end positions out
Corners_position_only(c) == {c.attrs["position"].v}

\* the corners a component adds to the bounding box of _auto_fit_view
Corners(c) ==
    {c.attrs["position"].v} \cup
    (IF hasattr(c, "end_position") THEN {c.attrs["end_position"].v} ELSE {})

SetMax(S) == CHOOSE x \in S : \A y \in S : y <= x
SetMin(S) == CHOOSE x \in S : \A y \in S : x <= y

\* _auto_fit_view: the view [zoom, pan_x, pan_y] for the components, or the
\* exception of `x, y = component.position`
auto_fit_view(comps) ==
    IF Len(comps) = 0 THEN Return([zoom |-> ZoomUnit, pan_x |-> 0, pan_y |-> 0])
    ELSE LET corners == UNION {Corners(comps[i]) : i \in 1..Len(comps)}
         IN  IF \E p \in corners : Len(p) # 2
             THEN Raise("ValueError", <<"values to unpack">>)
             ELSE LET margin == 1
                      min_x == SetMin({p[1].v : p \in corners}) - margin
                      min_y == SetMin({p[2].v : p \in corners}) - margin
                      max_x == SetMax({p[1].v : p \in corners}) + margin
                      max_y == SetMax({p[2].v : p \in corners}) + margin
                      width_pixels == (max_x - min_x) * CellSize
                      height_pixels == (max_y - min_y) * CellSize
                      zoom_x == IF width_pixels > 0
                                THEN RoundDiv(VizWidth * 9 * (ZoomUnit \div 10), width_pixels)
                                ELSE ZoomUnit
                      zoom_y == IF height_pixels > 0
                                THEN RoundDiv(WindowHeight * 9 * (ZoomUnit \div 10),
                                              height_pixels)
                                ELSE ZoomUnit
                      zoom == Min(Min(zoom_x, zoom_y), 2 * ZoomUnit)
                  IN  Return([zoom |-> zoom,
                              pan_x |-> (VizWidth \div 2) * 10
                                        - RoundDiv((min_x + max_x) * (CellSize \div 2) * zoom,
                                                   ZoomUnit \div 10),
                              pan_y |-> (WindowHeight \div 2) * 10
                                        - RoundDiv((min_y + max_y) * (CellSize \div 2) * zoom,
                                                   ZoomUnit \div 10)])

\* the scenes of the application: the shipped example, a pipe too long for
\* the pane at its diameter, a stopped pipe of diameter 0, an animated pipe
\* next to a tank whose layers fill and drain, a tank layer without a color
ExampleElements ==
    <<Dict([type |-> PyStr("tank"), id |-> PyStr("tank1"), position |-> Pos(10, 2),
            width |-> Num(3), height |-> Num(5), top_style |-> PyStr("ellipsoidal"),
            bottom_style |-> PyStr("ellipsoidal"), fill_percent |-> Num(Percent(70)),
            fluids |-> List(<<FluidOil, FluidWater>>)]),
      Dict([type |-> PyStr("pipe"), id |-> PyStr("pipe1"), position |-> Pos(2, 2),
            end_position |-> Pos(8, 2), fluid_type |-> PyStr("water"),
            color |-> Color(100, 150, 255), flow_direction |-> PyStr("forward"),
            diameter |-> Num(20), trim_end |-> PyBool(TRUE)]),
      Dict([type |-> PyStr("elbow"), id |-> PyStr("elbow1"), position |-> Pos(8, 2),
            connector_type |-> PyStr("elbow"), color |-> Color(100, 150, 255),
            size |-> Num(30), rotation |-> Num(270), diameter |-> Num(20)]),
      Dict([type |-> PyStr("pipe"), id |-> PyStr("pipe2"), position |-> Pos(8, 2),
            end_position |-> Pos(8, 6), fluid_type |-> PyStr("water"),
            color |-> Color(100, 150, 255), flow_direction |-> PyStr("forward"),
            diameter |-> Num(20), trim_start |-> PyBool(TRUE)]),
      Dict([type |-> PyStr("pipe"), id |-> PyStr("pipe3"), position |-> Pos(2, 5),
            end_position |-> Pos(6, 5), fluid_type |-> PyStr("oil"),
            color |-> Color(255, 100, 50), flow_direction |-> PyStr("backward"),
            diameter |-> Num(20)])>>
get_example_json == SceneText(ExampleElements)

LongPipeElement == Dict([type |-> PyStr("pipe"), position |-> Pos(0, 0),
                         end_position |-> Pos(300, 0)])
StoppedThinPipeElement == Dict([type |-> PyStr("pipe"), position |-> Pos(0, 0),
                                end_position |-> Pos(4, 0), diameter |-> Num(0),
                                flow_direction |-> PyStr("none")])
ThinningPipeElement ==
    Dict([type |-> PyStr("pipe"), position |-> Pos(0, 0), end_position |-> Pos(4, 0),
          diameter |-> Num(20), animation |-> List(<<KfThin, KfWide>>)])
ColorlessTankElement == Dict([type |-> PyStr("tank"), position |-> Pos(1, 1),
                              fluids |-> List(<<Dict([percent |-> Num(Percent(50))])>>)])

AppDocs ==
    {get_example_json,
     SceneText(<<LongPipeElement>>),
     SceneText(<<StoppedThinPipeElement>>),
     SceneText(<<AnimatedPipeElement, TeeElement>>),
     SceneText(<<ThinningPipeElement, ElbowElement>>),
     SceneText(<<ColorlessTankElement>>),
     SceneText(<<PipeElement, WidgetElement>>),
     SceneText(<< >>),
     MalformedText}

\* frame deltas in ticks, and the bounds on frames and wheel events
FrameDeltas == {17, 250}
MaxFrames == 2
MaxZoomEvents == 1

\* wheel factors 1.1 and 0.9 in tenths, and cursor positions in the pane
ZoomFactors == {11, 9}
CursorInputs == {<<0, 0>>, <<400, 450>>}

\* the body of _load_json on the text d: the new
\* [components, error_message, zoom, pan_x, pan_y, baseline]
LoadJson(d, old) ==
    LET result == load_from_string(d)
        view == auto_fit_view(result.value)
    IN  IF ~result.ok THEN [old EXCEPT !.error_message = Tuple(result.msg)]
        ELSE IF ~view.ok
             THEN [old EXCEPT !.components = result.value,
                              !.error_message = Tuple(view.msg),
                              !.baseline = components_to_json(result.value)]
             ELSE [components |-> result.value, error_message |-> PyNone,
                   zoom |-> view.value.zoom, pan_x |-> view.value.pan_x,
                   pan_y |-> view.value.pan_y,
                   baseline |-> components_to_json(result.value)]

AppState ==
    [components |-> components, error_message |-> error_message, zoom |-> viz_zoom,
     pan_x |-> viz_pan_x, pan_y |-> viz_pan_y, baseline |-> baseline]

\* __init__: the text of system.json or the example, then _load_json()
InitApp ==
    /\ json_text \in AppDocs
    /\ LET new == LoadJson(json_text,
                           [components |-> << >>, error_message |-> PyNone,
                            zoom |-> ZoomUnit, pan_x |-> 0, pan_y |-> 0,
                            baseline |-> PyNone])
       IN  /\ components = new.components
           /\ error_message = new.error_message
           /\ viz_zoom = new.zoom
           /\ viz_pan_x = new.pan_x
           /\ viz_pan_y = new.pan_y
           /\ baseline = new.baseline
    /\ zoom_events = 0 /\ app_time = 0 /\ frames = 0 /\ render_error = PyNone
    /\ steps = << >> /\ cursor = <<0, 0>>
    /\ IdleAnim /\ IdleOverride /\ IdleTank /\ IdleLoader /\ IdleDraw

\* the editor replaces the text
EditText(d) ==
    /\ render_error = PyNone
    /\ d # json_text
    /\ json_text' = d
    /\ UNCHANGED <<components, error_message, viz_zoom, viz_pan_x, viz_pan_y, zoom_events,
                   app_time, frames, baseline, render_error, steps, cursor>>
    /\ UNCHANGED <<animVars, overrideVars, tankVars, loaderVars, drawVars>>

\* the Load button: _load_json()
Load ==
    /\ render_error = PyNone
    /\ LET new == LoadJson(json_text, AppState)
       IN  /\ components' = new.components
           /\ error_message' = new.error_message
           /\ viz_zoom' = new.zoom
           /\ viz_pan_x' = new.pan_x
           /\ viz_pan_y' = new.pan_y
           /\ baseline' = new.baseline
    /\ UNCHANGED <<json_text, zoom_events, app_time, frames, render_error, steps,
                   cursor>>
    /\ UNCHANGED <<animVars, overrideVars, tankVars, loaderVars, drawVars>>

\* a handler that moves the pan by the requested factor, not by the change of
\* the clamped zoom
Zoom_by_factor(pos, zoom_factor) ==
    /\ render_error = PyNone
    /\ zoom_events < MaxZoomEvents
    /\ viz_zoom' = Max(ZoomUnit \div 10,
                       Min(5 * ZoomUnit, RoundDiv(viz_zoom * zoom_factor, 10)))
    /\ viz_pan_x' = pos[1] * 10 - RoundDiv((pos[1] * 10 - viz_pan_x) * zoom_factor, 10)
    /\ viz_pan_y' = pos[2] * 10 - RoundDiv((pos[2] * 10 - viz_pan_y) * zoom_factor, 10)
    /\ zoom_events' = zoom_events + 1
    /\ cursor' = pos
    /\ UNCHANGED <<json_text, components, error_message, app_time, frames, baseline,
                   render_error, steps>>
    /\ UNCHANGED <<animVars, overrideVars, tankVars, loaderVars, drawVars>>

\* a wheel event over the pane: _handle_viz_zoom(pos, zoom_factor)
Zoom(pos, zoom_factor) ==
    /\ render_error = PyNone
    /\ zoom_events < MaxZoomEvents
    /\ LET new_zoom == Max(ZoomUnit \div 10,
                           Min(5 * ZoomUnit, RoundDiv(viz_zoom * zoom_factor, 10)))
       IN  /\ viz_zoom' = new_zoom
           /\ viz_pan_x' = pos[1] * 10
                           - RoundDiv((pos[1] * 10 - viz_pan_x) * new_zoom, viz_zoom)
           /\ viz_pan_y' = pos[2] * 10
                           - RoundDiv((pos[2] * 10 - viz_pan_y) * new_zoom, viz_zoom)
    /\ zoom_events' = zoom_events + 1
    /\ cursor' = pos
    /\ UNCHANGED <<json_text, components, error_message, app_time, frames, baseline,
                   render_error, steps>>
    /\ UNCHANGED <<animVars, overrideVars, tankVars, loaderVars, drawVars>>

\* one pass of run(): time += dt, then render(); an exception ends the program
Frame(dt) ==
    /\ render_error = PyNone
    /\ frames < MaxFrames
    /\ app_time' = app_time + dt
    /\ frames' = frames + 1
    /\ IF GridStep(viz_zoom) = 0
       THEN /\ render_error' = Raise("ValueError", <<"range() arg 3 must not be zero">>)
                                   @@ [component |-> 0]
            /\ steps' = << >>
            /\ UNCHANGED components
       ELSE LET pass == RenderComponents(components, 1, app_time', viz_zoom)
            IN  /\ components' = pass.components
                /\ render_error' = pass.error
                /\ steps' = pass.steps
    /\ UNCHANGED <<json_text, error_message, viz_zoom, viz_pan_x, viz_pan_y, zoom_events,
                   baseline, cursor>>
    /\ UNCHANGED <<animVars, overrideVars, tankVars, loaderVars, drawVars>>

NextApp ==
    \/ \E d \in AppDocs : EditText(d)
    \/ Load
    \/ \E pos \in CursorInputs, f \in ZoomFactors : Zoom(pos, f)
    \/ \E dt \in FrameDeltas : Frame(dt)

SpecApp == InitApp /\ [][NextApp]_vars

\* C5: rendering never raises for a successfully loaded scene: in every view
\* state the application reaches and at every time, each component's render
\* completes without an error.
C5_RenderNeverRaises == render_error # PyNone => render_error.component = 0

\* C6: animating leaves the persisted scene as it was: after any number of
\* rendered frames components_to_json of the scene equals components_to_json
\* of the scene as loaded.
C6_FramesKeepDocument ==
    (baseline # PyNone /\ render_error = PyNone) => components_to_json(components) = baseline

-----------------------------------------------------------------------------
(* SpecDraw: one render call on one component, at any grid size, offset and *)
(* time, and what the call draws                                            *)

DiagonalPipeElement == Dict([type |-> PyStr("pipe"), position |-> Pos(0, 0),
                             end_position |-> Pos(3, 4)])
BackwardPipeElement == Dict([type |-> PyStr("pipe"), position |-> Pos(4, 1),
                             end_position |-> Pos(0, 1), diameter |-> Num(10),
                             flow_direction |-> PyStr("backward")])
TrimmedPipeElement == Dict([type |-> PyStr("pipe"), position |-> Pos(1, 1),
                            end_position |-> Pos(4, 5), trim_start |-> PyBool(TRUE),
                            trim_end |-> PyBool(TRUE)])
PointPipeElement == Dict([type |-> PyStr("pipe"), position |-> Pos(2, 3),
                          end_position |-> Pos(2, 3), trim_start |-> PyBool(TRUE)])
NegativePipeElement == Dict([type |-> PyStr("pipe"), position |-> Pos(0, 2),
                             end_position |-> Pos(4, 2), diameter |-> Num(-5),
                             trim_start |-> PyBool(TRUE)])
ShortWidePipeElement == Dict([type |-> PyStr("pipe"), position |-> Pos(0, 0),
                              end_position |-> Pos(1, 0), diameter |-> Num(40),
                              trim_start |-> PyBool(TRUE), trim_end |-> PyBool(TRUE)])
DrawPipeElements == {PipeElement, AnimatedPipeElement, DiagonalPipeElement,
                     BackwardPipeElement, TrimmedPipeElement, PointPipeElement,
                     StoppedThinPipeElement, NegativePipeElement, ShortWidePipeElement}

ClosedValveElement == Dict([type |-> PyStr("valve"), position |-> Pos(1, 1),
                            state |-> PyStr("closed")])
OpenValveElement == Dict([type |-> PyStr("valve"), position |-> Pos(1, 1)])
TurnedValveElement == Dict([type |-> PyStr("valve"), position |-> Pos(2, 0),
                            state |-> PyStr("closed"), rotation |-> Num(90),
                            diameter |-> Num(7)])
ThinValveElement == Dict([type |-> PyStr("valve"), position |-> Pos(1, 1),
                          state |-> PyStr("closed"), diameter |-> Num(1)])
DrawValveElements == {ClosedValveElement, OpenValveElement, TurnedValveElement,
                      ThinValveElement}

\* the pipes as load_from_string returns them, the valves as Valve.from_dict does
DrawShapes ==
    {load_from_string(SceneText(<<e>>)).value[1] : e \in DrawPipeElements}
    \cup {Valve_from_dict(e.v).value : e \in DrawValveElements}

\* grid sizes in thousandths of a pixel (zoom 0.5, 1.0 and 1.44), offsets in
\* tenths of a pixel, times in ticks
GridSizes == {25000, 50000, 72000}
Offsets == {<<0, 0>>, <<-125, 40>>}
MaxDrawTime == 750

InitDraw ==
    /\ shape \in DrawShapes
    /\ render_args \in [grid_size : GridSizes, offset : Offsets, time : 0..MaxDrawTime]
    /\ drawing = PyNone
    /\ IdleAnim /\ IdleOverride /\ IdleTank /\ IdleLoader /\ IdleApp

\* shape.render(surface, grid_size, offset, time)
Render ==
    /\ drawing = PyNone
    /\ LET zoom == render_args.grid_size \div BaseGridSize
           drawn == render(shape, zoom, render_args.time)
       IN  /\ shape' = drawn.component
           /\ drawing' =
                 [error |-> drawn.error,
                  body |-> IF shape.cls = "Pipe"
                           THEN Pipe_body(shape, render_args.grid_size, render_args.offset)
                           ELSE PyNone,
                  x_mark |-> shape.cls = "Valve" /\ drawn.x_mark]
    /\ UNCHANGED <<render_args, animVars, overrideVars, tankVars, loaderVars, appVars>>

NextDraw == Render

SpecDraw == InitDraw /\ [][NextDraw]_vars

ClosedValveDrawn ==
    /\ drawing # PyNone
    /\ shape.cls = "Valve"
    /\ shape.attrs["state"] = PyStr("closed")
    /\ drawing.error = PyNone

\* alpha(t) = (sin(2 * pi * 2.0 * t) + 1) / 2 has its minimum 0 at 375 ticks of
\* every 500, and is below 0.3 within 92 ticks of the minimum
AlphaBelowThreshold(t) ==
    LET into == t % 500
    IN  into - 375 <= 92 /\ 375 - into <= 92

\* C15 as stated: a closed Valve shows its X overlay at t = 0.0 and hides it at
\* t = 0.75, and the overlay is drawn exactly when alpha >= 0.3.
C15_HiddenAtThreeQuarters ==
    ClosedValveDrawn =>
        /\ render_args.time = 0 => drawing.x_mark
        /\ render_args.time = 750 => ~drawing.x_mark
        /\ drawing.x_mark <=> ~AlphaBelowThreshold(render_args.time)

\* C15 (amended): a closed Valve shows its X overlay at t = 0.0 (alpha = 0.5)
\* and hides it at t = 0.375, the first t where sin(2 * pi * 2.0 * t) = -1
\* (alpha = 0); at t = 0.75 alpha is 0.5 again and the overlay is shown;
\* _draw_flashing_x, which render calls for a closed valve, draws the overlay
\* exactly when alpha >= 0.3.
C15_OverlayBlinks ==
    ClosedValveDrawn =>
        /\ render_args.time = 0 => drawing.x_mark
        /\ render_args.time = 375 => ~drawing.x_mark
        /\ render_args.time = 750 => drawing.x_mark
        /\ drawing.x_mark <=> ~AlphaBelowThreshold(render_args.time)

C15_Witness ==
    /\ ClosedValveDrawn
    /\ render_args.time = 375
    /\ ~drawing.x_mark

\* an untrimmed pipe has been drawn
UntrimmedPipeDrawn ==
    /\ drawing # PyNone
    /\ shape.cls = "Pipe"
    /\ ~Truthy(shape.attrs["trim_start"])
    /\ ~Truthy(shape.attrs["trim_end"])

\* the pipe of the document with position [0,0], end_position [4,0], diameter 20
ScenarioPipe == load_from_string(SceneText(<<PipeElement>>))

\* C16: an untrimmed Pipe's body is drawn from position * grid_size + offset to
\* end_position * grid_size + offset, so its two ends are apart by the grid
\* distance between the pipe's ends times the grid size; the document with
\* position [0,0], end_position [4,0], diameter 20 loads as one Pipe whose body
\* at zoom 1 is 4 * cell_size pixels long.
C16_BodySpansEnds ==
    UntrimmedPipeDrawn =>
        LET position == shape.attrs["position"].v
            end_position == shape.attrs["end_position"].v
            grid_size == render_args.grid_size
            offset == render_args.offset
            body == drawing.body
        IN  /\ body.start = <<position[1].v * grid_size + offset[1] * 100,
                              position[2].v * grid_size + offset[2] * 100>>
            /\ body.end = <<end_position[1].v * grid_size + offset[1] * 100,
                            end_position[2].v * grid_size + offset[2] * 100>>
            /\ body.end[1] - body.start[1] = (end_position[1].v - position[1].v) * grid_size
            /\ body.end[2] - body.start[2] = (end_position[2].v - position[2].v) * grid_size
            /\ ScenarioPipe.ok /\ Len(ScenarioPipe.value) = 1
            /\ (shape = ScenarioPipe.value[1] /\ grid_size = CellSize * ZoomUnit) =>
                  /\ body.end[1] - body.start[1] = 4 * CellSize * 1000
                  /\ body.end[2] = body.start[2]

C16_Witness ==
    /\ UntrimmedPipeDrawn
    /\ shape = ScenarioPipe.value[1]
    /\ render_args.grid_size = CellSize * ZoomUnit
    /\ render_args.offset # <<0, 0>>
    /\ drawing.body.end[1] - drawing.body.start[1] = 200000

\* the steps of a whole pass over n components: apply_animation, render,
\* restore_properties of 1, then of 2, ...
FrameOrder(n) ==
    /\ Len(steps) = 3 * n
    /\ \A i \in 1..n :
          /\ steps[3 * i - 2].op = "apply_animation" /\ steps[3 * i - 2].component = i
          /\ steps[3 * i - 1].op = "render" /\ steps[3 * i - 1].component = i
          /\ steps[3 * i].op = "restore_properties" /\ steps[3 * i].component = i

\* every value apply_animation captured is the component's value again
NoOverrideHeld ==
    \A k \in 1..Len(steps) :
        \A prop \in DOMAIN steps[k].originals :
            components[steps[k].component].attrs[prop] = steps[k].originals[prop]

\* C20: in every rendered frame the components are processed in scene order,
\* each by apply_animation, render, restore_properties in that order, the
\* restore of component i before the apply of component i+1; at the end of
\* the frame no component holds an override value.
C20_FrameDiscipline ==
    [][frames' = frames + 1 => (FrameOrder(Len(components)) /\ NoOverrideHeld)']_vars

-----------------------------------------------------------------------------
(* SpecZoom: wheel events on any view the application can be in *)

\* zooms in thousandths: the auto-fit of a 300-cell scene (below the clamp),
\* the lower clamp, the initial zoom, the auto-fit cap, 1.1^16 and the upper
\* clamp; pans in tenths of a pixel, as dragging leaves them
ZoomInputs == {47, 100, 1000, 2000, 4595, 5000}
PanInputs == {-3000, 0, 1255}

InitZoom ==
    /\ viz_zoom \in ZoomInputs
    /\ viz_pan_x \in PanInputs
    /\ viz_pan_y \in PanInputs
    /\ json_text = SceneText(<< >>) /\ components = << >>
    /\ error_message = PyNone /\ baseline = PyNone /\ render_error = PyNone
    /\ zoom_events = 0 /\ app_time = 0 /\ frames = 0
    /\ steps = << >> /\ cursor = <<0, 0>>
    /\ IdleAnim /\ IdleOverride /\ IdleTank /\ IdleLoader /\ IdleDraw

NextZoom == \E pos \in CursorInputs, f \in ZoomFactors : Zoom(pos, f)

SpecZoom == InitZoom /\ [][NextZoom]_vars

\* (cursor - pan) / zoom is the same before and after, pan' being the grid
\* value nearest to the exact solution
SamePointUnderCursor(c, pan_before, pan_after) ==
    LET off == (c * 10 - pan_after) * viz_zoom - (c * 10 - pan_before) * viz_zoom'
    IN  2 * off <= viz_zoom /\ 2 * (0 - off) <= viz_zoom

Clamped(zoom) == Max(ZoomUnit \div 10, Min(5 * ZoomUnit, zoom))

\* C22: a zoom event keeps the point under the cursor fixed: for any view
\* state, cursor position and zoom factor, the grid coordinate
\* (cursor - pan) / (cell_size * zoom) is the same before and after
\* _handle_viz_zoom, including when the new zoom is clamped to 0.1 or 5.0.
C22_CursorPointFixed ==
    [][zoom_events' = zoom_events + 1 =>
          /\ viz_zoom' \in {Clamped(RoundDiv(viz_zoom * f, 10)) : f \in ZoomFactors}
          /\ SamePointUnderCursor(cursor'[1], viz_pan_x, viz_pan_x')
          /\ SamePointUnderCursor(cursor'[2], viz_pan_y, viz_pan_y')]_vars

\* a zoom-in at the upper clamp, away from the pane's origin, with the view
\* panned: the zoom stays 5.0
C22_Witness ==
    /\ zoom_events = 1
    /\ viz_zoom = 5 * ZoomUnit
    /\ cursor = <<400, 450>>
    /\ viz_pan_x = 1255

-----------------------------------------------------------------------------
(* SpecFit: Load on an edited text, from a view the user may have zoomed *)

FarTeeElement == Dict([type |-> PyStr("tee"), position |-> Pos(-7, 12)])
FitElements == {PipeElement, LongPipeElement, AnimatedPipeElement, TankElement,
                FarTeeElement, TriplePositionPipe, WidgetElement}

\* the texts the application was started on, and the texts in the editor
StartDocs == {SceneText(<< >>), SceneText(<<PipeElement, ElbowElement>>), get_example_json}
FitDocs == {MalformedText} \cup {SceneText(es) : es \in SeqsUpTo(FitElements, MaxComponents)}

\* the application constructed on a start text, the editor then holding another
InitFit ==
    /\ \E start \in StartDocs :
          LET new == LoadJson(start,
                              [components |-> << >>, error_message |-> PyNone,
                               zoom |-> ZoomUnit, pan_x |-> 0, pan_y |-> 0,
                               baseline |-> PyNone])
          IN  /\ components = new.components
              /\ error_message = new.error_message
              /\ viz_zoom = new.zoom
              /\ viz_pan_x = new.pan_x
              /\ viz_pan_y = new.pan_y
              /\ baseline = new.baseline
    /\ json_text \in FitDocs
    /\ zoom_events = 0 /\ app_time = 0 /\ frames = 0 /\ render_error = PyNone
    /\ steps = << >> /\ cursor = <<0, 0>>
    /\ IdleAnim /\ IdleOverride /\ IdleTank /\ IdleLoader /\ IdleDraw

NextFit ==
    \/ Load
    \/ \E pos \in CursorInputs, f \in ZoomFactors : Zoom(pos, f)

SpecFit == InitFit /\ [][NextFit]_vars

\* the positions of a scene, and the end positions of its pipes
BoxPoints(comps) ==
    {comps[i].attrs["position"].v : i \in 1..Len(comps)} \cup
    {comps[i].attrs["end_position"].v : i \in {j \in 1..Len(comps) : comps[j].cls = "Pipe"}}

\* z is the grid value nearest to num / den
Nearest(z, num, den) == 2 * (z * den - num) <= den /\ 2 * (num - z * den) <= den

\* the view [zoom, pan_x, pan_y] fits the scene: the box around the points,
\* one cell wider on each side, at 90 % of the pane or at zoom 2.0, whichever is
\* less, its centre on the pane's centre
Fits(comps, zoom, pan_x, pan_y) ==
    LET points == BoxPoints(comps)
        min_x == SetMin({q[1].v : q \in points}) - 1
        max_x == SetMax({q[1].v : q \in points}) + 1
        min_y == SetMin({q[2].v : q \in points}) - 1
        max_y == SetMax({q[2].v : q \in points}) + 1
        box_width == (max_x - min_x) * CellSize
        box_height == (max_y - min_y) * CellSize
        by_width == 9 * VizWidth * 100
        by_height == 9 * WindowHeight * 100
    IN  /\ zoom <= 2 * ZoomUnit
        /\ 2 * (zoom * box_width - by_width) <= box_width
        /\ 2 * (zoom * box_height - by_height) <= box_height
        /\ \/ zoom = 2 * ZoomUnit
           \/ Nearest(zoom, by_width, box_width)
           \/ Nearest(zoom, by_height, box_height)
        /\ Nearest(pan_x, VizWidth * 5 * 100 - (min_x + max_x) * (CellSize \div 2) * zoom, 100)
        /\ Nearest(pan_y, WindowHeight * 5 * 100 - (min_y + max_y) * (CellSize \div 2) * zoom,
                   100)
        /\ \A q \in points :
              /\ q[1].v * CellSize * zoom + 100 * pan_x >= 0
              /\ q[1].v * CellSize * zoom + 100 * pan_x <= VizWidth * 1000
              /\ q[2].v * CellSize * zoom + 100 * pan_y >= 0
              /\ q[2].v * CellSize * zoom + 100 * pan_y <= WindowHeight * 1000

\* C23: after auto-fit over a non-empty scene, zoom = min(0.9 * viewport_width
\* / box_width, 0.9 * viewport_height / box_height, 2.0), the box being the
\* union of every component's position (and end_position for pipes) padded by
\* one cell on each side, and pan maps the box centre to the viewport centre;
\* hence zoom <= 2.0 and every component position maps to a pixel inside the
\* pane.  Stated of the application as constructed and of every Load that
\* ends without an error message.
C23_AutoFit ==
    /\ [](( /\ zoom_events = 0 /\ error_message = PyNone /\ components # << >> )
            => Fits(components, viz_zoom, viz_pan_x, viz_pan_y))
    /\ [][( /\ zoom_events' = zoom_events /\ error_message' = PyNone
            /\ components' # << >> )
            => Fits(components', viz_zoom', viz_pan_x', viz_pan_y')]_vars

\* a Load of the 300-cell pipe after a wheel event: the zoom falls to 0.048
C23_Witness ==
    /\ zoom_events = 1
    /\ error_message = PyNone
    /\ Len(components) = 1
    /\ components[1].cls = "Pipe"
    /\ components[1].attrs["end_position"] = Tuple(<<Num(300), Num(0)>>)
    /\ viz_zoom = 48
    /\ Fits(components, viz_zoom, viz_pan_x, viz_pan_y)

\* C26: whenever a Load attempt ends with an error message set, the components
\* list and the view (pan and zoom) are exactly what they were before the
\* attempt; on a successful attempt the components are replaced by the newly
\* loaded scene and error_message is None.
C26_FailedLoadKeepsScene ==
    [][zoom_events' = zoom_events =>
          IF error_message' # PyNone
          THEN /\ components' = components
               /\ <<viz_zoom', viz_pan_x', viz_pan_y'>> = <<viz_zoom, viz_pan_x, viz_pan_y>>
          ELSE /\ load_from_string(json_text).ok
               /\ components' = load_from_string(json_text).value]_vars

\* C24: for every variant, loading an element that has a non-empty `animation`
\* list and then serializing the component yields an attribute map whose
\* `animation` value equals that list, and loading an element without
\* `animation` yields a map with no `animation` key.
C24_AnimationSerialized ==
    (loaded # PyNone /\ loaded.ok /\ previous = PyNone) =>
        \A i \in 1..Len(loaded.value) :
            LET element == ComponentsData(doc)[i].v
                map == to_dict(loaded.value[i]).v
            IN  /\ ("animation" \in DOMAIN element /\ Truthy(element["animation"])) =>
                      ("animation" \in DOMAIN map /\ map["animation"] = element["animation"])
                /\ "animation" \notin DOMAIN element => "animation" \notin DOMAIN map

\* a pipe has been drawn; its cell differences and the ends of its untrimmed body
PipeDrawn == drawing # PyNone /\ shape.cls = "Pipe"
CellsAcross == shape.attrs["end_position"].v[1].v - shape.attrs["position"].v[1].v
CellsDown == shape.attrs["end_position"].v[2].v - shape.attrs["position"].v[2].v
UntrimmedStart ==
    <<shape.attrs["position"].v[1].v * render_args.grid_size + render_args.offset[1] * 100,
      shape.attrs["position"].v[2].v * render_args.grid_size + render_args.offset[2] * 100>>
UntrimmedEnd ==
    <<shape.attrs["end_position"].v[1].v * render_args.grid_size
        + render_args.offset[1] * 100,
      shape.attrs["end_position"].v[2].v * render_args.grid_size
        + render_args.offset[2] * 100>>

\* the point `from` moved by `distance` along the pipe direction (sign +1) or
\* against it (sign -1) is `to`; the pipe spans `cells` cells
MovedAlong(from, to, sign, distance, cells) ==
    /\ (to[1] - from[1]) * cells = sign * CellsAcross * distance
    /\ (to[2] - from[2]) * cells = sign * CellsDown * distance

\* C25: for a Pipe of non-zero length, trim_start (resp. trim_end) moves the
\* drawn start (resp. end) toward the other end by exactly
\* 1.25 * scaled_diameter along the pipe direction and leaves the other end
\* where it was, with scaled_diameter = floor(diameter * grid_size / 50); with
\* neither flag set both ends are unchanged.
C25_TrimDistance ==
    (PipeDrawn /\ <<CellsAcross, CellsDown>> # <<0, 0>>) =>
        LET scaled_diameter ==
                (shape.attrs["diameter"].v * render_args.grid_size) \div (BaseGridSize * 1000)
            distance == 1250 * scaled_diameter
            cells == ISqrt(CellsAcross * CellsAcross + CellsDown * CellsDown)
        IN  /\ IF Truthy(shape.attrs["trim_start"])
               THEN MovedAlong(UntrimmedStart, drawing.body.start, 1, distance, cells)
               ELSE drawing.body.start = UntrimmedStart
            /\ IF Truthy(shape.attrs["trim_end"])
               THEN MovedAlong(UntrimmedEnd, drawing.body.end, -1, distance, cells)
               ELSE drawing.body.end = UntrimmedEnd

\* C29: trimming never reverses a pipe: for any Pipe, diameter and grid size
\* the segment drawn after trim_start and/or trim_end points in the same
\* direction as the untrimmed segment (the trimmed start never passes the
\* trimmed end).
C29_TrimKeepsDirection ==
    PipeDrawn =>
        /\ (drawing.body.end[1] - drawing.body.start[1]) * CellsAcross >= 0
        /\ (drawing.body.end[2] - drawing.body.start[2]) * CellsDown >= 0

====
